---- MODULE Spec2Model ----
(***************************************************************************)
(* A model of EnhancedJudgmentExtractor (src/tool.py): the line classifier *)
(* preserve_enhanced_numbering, the metadata extractor                     *)
(* smart_parse_judgment_structure and the pipeline                         *)
(* process_judgment_enhanced.                                              *)
(*                                                                         *)
(* A text is a sequence of characters; a character is a one-character      *)
(* string.  Characters outside ASCII carry a name: "bullet" is U+2022,     *)
(* "A_circ" is U+00C2 and "shy" is the soft hyphen U+00AD.                 *)
(***************************************************************************)
EXTENDS Integers, Sequences, FiniteSets, TLC

(* Characters and the str methods the code uses                            *)

UpperSeq ==
  <<"A", "B", "C", "D", "E", "F", "G", "H", "I", "J", "K", "L", "M", "N",
    "O", "P", "Q", "R", "S", "T", "U", "V", "W", "X", "Y", "Z">>
LowerSeq ==
  <<"a", "b", "c", "d", "e", "f", "g", "h", "i", "j", "k", "l", "m", "n",
    "o", "p", "q", "r", "s", "t", "u", "v", "w", "x", "y", "z">>

Upper == {UpperSeq[i] : i \in DOMAIN UpperSeq}
Lower == {LowerSeq[i] : i \in DOMAIN LowerSeq}
Digit == {"0", "1", "2", "3", "4", "5", "6", "7", "8", "9"}
\* \s of re and the characters str.strip() removes
Space == {" ", "\t", "\n", "\r"}
\* \w of re on str patterns: letters (the non-ASCII ones too), digits, "_"
WordChar == Upper \cup Lower \cup Digit \cup {"_", "A_circ"}

UpperOf == [c \in Lower |-> UpperSeq[CHOOSE i \in DOMAIN LowerSeq : LowerSeq[i] = c]]
LowerOf == [c \in Upper |-> LowerSeq[CHOOSE i \in DOMAIN UpperSeq : UpperSeq[i] = c]]

\* str.upper() and str.lower(), one character
UpChar(c) == IF c \in Lower THEN UpperOf[c] ELSE c
LoChar(c) == IF c \in Upper THEN LowerOf[c] ELSE c

\* str.upper()
StrUpper(s) == [i \in DOMAIN s |-> UpChar(s[i])]
\* str.lower()
StrLower(s) == [i \in DOMAIN s |-> LoChar(s[i])]

\* str.isupper(): some cased character, and no lower-case one
IsUpper(s) ==
  /\ \E i \in DOMAIN s : s[i] \in Upper \cup {"A_circ"}
  /\ \A i \in DOMAIN s : s[i] \notin Lower

\* s[a:b] of Python with 1-based a and exclusive b
Slice(s, a, b) == IF b <= a THEN <<>> ELSE SubSeq(s, a, b - 1)

\* s.startswith(p)
StartsWith(s, p) == Len(p) <= Len(s) /\ SubSeq(s, 1, Len(p)) = p

\* the one element of a set of one element: {e : x \in {v}} is e with x
\* standing for the value of v, worked out once
Only(S) == CHOOSE x \in S : TRUE
\* F of the value of v: a name for a value that is worked out once
With(v, F(_)) == CHOOSE r \in {F(x) : x \in {v}} : TRUE

MinOf(S) == Only({(CHOOSE x \in T : \A y \in T : x <= y) : T \in {S}})
MaxOf(S) == Only({(CHOOSE x \in T : \A y \in T : x >= y) : T \in {S}})

\* s.find(p) + 1 from position a on: the least 1-based index of p in s, or 0
FindFrom(str, sub, a) ==
  LET Hits(s, p) ==
        {i \in a..(Len(s) - Len(p) + 1) : SubSeq(s, i, i + Len(p) - 1) = p}
  IN  Only({IF hits = {} THEN 0 ELSE MinOf(hits) :
              hits \in {Only({Hits(s, p) : s \in {str}, p \in {sub}})}})

\* p in s
Contains(s, p) == FindFrom(s, p, 1) # 0

\* str.strip()
Strip(str) ==
  LET Kept(s, keep) ==
        IF keep = {} THEN <<>> ELSE SubSeq(s, MinOf(keep), MaxOf(keep))
  IN  Only({Only({Kept(s, keep) : keep \in {{i \in DOMAIN s : s[i] \notin Space}}}) :
              s \in {str}})

\* str.split(sep) for a one-character separator: never an empty list
Split(str, sep) ==
  LET Parts(s, seps, n) ==
        LET Nth(k) == CHOOSE i \in seps : Cardinality({j \in seps : j <= i}) = k
        IN  <<>> \o [k \in 1..(n + 1) |->
                       Slice(s, IF k = 1 THEN 1 ELSE Nth(k - 1) + 1,
                                IF k = n + 1 THEN Len(s) + 1 ELSE Nth(k))]
      BySeps(s, seps) == Only({Parts(s, seps, n) : n \in {Cardinality(seps)}})
  IN  Only({Only({BySeps(s, seps) : seps \in {{i \in DOMAIN s : s[i] = sep}}}) :
              s \in {str}})

\* the concatenation of parts[lo..hi]
RECURSIVE Concat(_, _, _)
Concat(parts, lo, hi) ==
  IF lo > hi THEN <<>>
  ELSE IF lo = hi THEN parts[lo]
  ELSE LET mid == (lo + hi) \div 2
       IN  Concat(parts, lo, mid) \o Concat(parts, mid + 1, hi)

\* ''.join(parts), and the list that extending a list by each of parts gives
Flatten(parts) == Only({Concat(all, 1, Len(all)) : all \in {<<>> \o parts}})

\* where a for loop that leaves at the first entry whose test holds stops:
\* the least index at which hits is TRUE, or 0
FirstTrue(hits) ==
  With(<<>> \o hits, LAMBDA hs :
    IF \A k \in DOMAIN hs : ~hs[k] THEN 0
    ELSE CHOOSE k \in DOMAIN hs : hs[k] /\ \A j \in 1..(k - 1) : ~hs[j])

\* sep.join(parts) for a one-character separator
Join(parts, sep) ==
  Only({Flatten([k \in 1..(2 * Len(ps) - 1) |->
                   IF k % 2 = 0 THEN <<sep>> ELSE ps[(k + 1) \div 2]]) :
          ps \in {parts}})

(***************************************************************************)
(* Regular expressions of the re module.  A pattern is a tree of records.  *)
(* A matcher state is [i, g]: the position in s and the capture groups.    *)
(* Ends gives the states in which a node can end when it starts in a       *)
(* state, in the order re's backtracking tries them, so the first end of a *)
(* pattern is the match re finds.  Every repeated node of the code's       *)
(* patterns consumes at least one character, so no repetition needs an     *)
(* empty-iteration check.  f holds the flags.                              *)
(***************************************************************************)
Cls(S) == [t |-> "cls", s |-> S]
NotCls(S) == [t |-> "ncls", s |-> S]
Cat(rs) == [t |-> "cat", a |-> rs]
Alt(rs) == [t |-> "alt", a |-> rs]
\* r{lo,hi}, greedy; hi = -1 is no upper limit
Rep(r, lo, hi) == [t |-> "rep", r |-> r, lo |-> lo, hi |-> hi, lazy |-> FALSE]
\* r{lo,hi}?, lazy
LazyRep(r, lo, hi) == [t |-> "rep", r |-> r, lo |-> lo, hi |-> hi, lazy |-> TRUE]
Star(r) == Rep(r, 0, -1)
Plus(r) == Rep(r, 1, -1)
Opt(r) == Rep(r, 0, 1)
\* capture group n
Grp(n, r) == [t |-> "grp", n |-> n, r |-> r]
\* (?=r)
Look(r) == [t |-> "look", r |-> r]
\* ^ , $ and \b
Bol == [t |-> "bol"]
Eol == [t |-> "eol"]
WordB == [t |-> "wordb"]
\* a literal string
Lit(str) == [t |-> "lit", a |-> str]
\* \s, \d, \w and . (without DOTALL)
ReSpace == Cls(Space)
ReDigit == Cls(Digit)
ReWord == Cls(WordChar)
ReDot == NotCls({"\n"})
ReAny == NotCls({})

\* re.IGNORECASE, re.MULTILINE
NoFlags == [ic |-> FALSE, ml |-> FALSE]
IgnoreCase == [ic |-> TRUE, ml |-> FALSE]
IgnoreCaseMultiline == [ic |-> TRUE, ml |-> TRUE]

NoMatch == <<>>
NoGroups == << <<0, 0>>, <<0, 0>>, <<0, 0>> >>

InCls(c, S, f) == c \in S \/ (f.ic /\ (UpChar(c) \in S \/ LoChar(c) \in S))

\* whether the character c matches the class node r
ClsHit(r, c, f) == IF r.t = "cls" THEN InCls(c, r.s, f) ELSE ~InCls(c, r.s, f)
\* how many characters from position i on match the class node r
RunLen(r, s, i, f) ==
  LET stop == CHOOSE j \in i..(Len(s) + 1) :
                /\ j > Len(s) \/ ~ClsHit(r, s[j], f)
                /\ \A h \in i..(j - 1) : ClsHit(r, s[h], f)
  IN  stop - i
\* whether the literal a stands at position i
LitHit(a, s, i, f) ==
  /\ i + Len(a) - 1 <= Len(s)
  /\ \A j \in DOMAIN a : InCls(s[i + j - 1], {a[j]}, f)

AtBol(s, i, f) == i = 1 \/ (f.ml /\ s[i - 1] = "\n")
AtEol(s, i, f) ==
  \/ i = Len(s) + 1
  \/ (i = Len(s) /\ s[i] = "\n")
  \/ (f.ml /\ i <= Len(s) /\ s[i] = "\n")
AtWordB(s, i) ==
  LET before == i > 1 /\ s[i - 1] \in WordChar
      after == i <= Len(s) /\ s[i] \in WordChar
  IN  before # after

RECURSIVE Ends(_, _, _, _)
\* the ends of the nodes lo to hi of a concatenation, one after the other,
\* from each of the states: by halves
RECURSIVE CatEnds(_, _, _, _, _, _)
CatEnds(nodes, lo, hi, s, f, states) ==
  IF states = <<>> \/ lo > hi THEN states
  ELSE IF lo = hi
       THEN Flatten([n \in DOMAIN states |-> Ends(nodes[lo], s, f, states[n])])
  ELSE Only({CatEnds(nodes, ((lo + hi) \div 2) + 1, hi, s, f, left) :
               left \in {CatEnds(nodes, lo, (lo + hi) \div 2, s, f, states)}})

\* the ends of r{lo,hi} for an r that is no character class: one more r
\* before none when greedy, none before one more when lazy
RECURSIVE RepEnds(_, _, _, _, _, _, _)
RepEnds(r, lo, hi, lazy, s, f, st) ==
  LET stop == IF lo > 0 THEN <<>> ELSE <<st>>
      More(once) == Flatten([n \in DOMAIN once |->
                               RepEnds(r, IF lo > 0 THEN lo - 1 ELSE 0,
                                       IF hi > 0 THEN hi - 1 ELSE hi, lazy, s, f,
                                       once[n])])
  IN  Only({IF lazy THEN stop \o More(once) ELSE More(once) \o stop :
              once \in {IF hi = 0 THEN <<>> ELSE Ends(r, s, f, st)}})

Ends(r, s, f, st) ==
  CASE r.t \in {"cls", "ncls"} ->
         IF st.i <= Len(s) /\ ClsHit(r, s[st.i], f)
         THEN <<[st EXCEPT !.i = @ + 1]>> ELSE <<>>
    [] r.t = "lit" ->
         IF LitHit(r.a, s, st.i, f)
         THEN <<[st EXCEPT !.i = @ + Len(r.a)]>> ELSE <<>>
    [] r.t = "cat" -> CatEnds(r.a, 1, Len(r.a), s, f, <<st>>)
    [] r.t = "alt" -> Flatten([a \in DOMAIN r.a |-> Ends(r.a[a], s, f, st)])
    [] r.t = "rep" /\ r.r.t \in {"cls", "ncls"} ->
         \* the counts of the run, the longest first when greedy and the
         \* shortest first when lazy
         Only({[t \in 1..(top - r.lo + 1) |->
                  [st EXCEPT !.i = @ + (IF r.lazy THEN r.lo + t - 1
                                        ELSE top - t + 1)]] :
                 top \in {Only({IF r.hi >= 0 /\ r.hi < run THEN r.hi ELSE run :
                                  run \in {RunLen(r.r, s, st.i, f)}})}})
    [] r.t = "rep" /\ r.lo = 0 /\ r.hi = 1 ->
         IF r.lazy THEN <<st>> \o Ends(r.r, s, f, st)
         ELSE Ends(r.r, s, f, st) \o <<st>>
    [] r.t = "rep" -> RepEnds(r.r, r.lo, r.hi, r.lazy, s, f, st)
    [] r.t = "grp" ->
         Only({[n \in DOMAIN ends |->
                  [ends[n] EXCEPT !.g[r.n] = <<st.i, ends[n].i>>]] :
                 ends \in {Ends(r.r, s, f, st)}})
    [] r.t = "look" -> IF Ends(r.r, s, f, st) # <<>> THEN <<st>> ELSE <<>>
    [] r.t = "bol" -> IF AtBol(s, st.i, f) THEN <<st>> ELSE <<>>
    [] r.t = "eol" -> IF AtEol(s, st.i, f) THEN <<st>> ELSE <<>>
    [] r.t = "wordb" -> IF AtWordB(s, st.i) THEN <<st>> ELSE <<>>

\* the match of r at position i: <<end, groups>> (end exclusive), or NoMatch
MatchAt(r, s, i, f) ==
  Only({IF ends = <<>> THEN NoMatch ELSE <<ends[1].i, ends[1].g>> :
          ends \in {Ends(r, s, f, [i |-> i, g |-> NoGroups])}})

\* re.match(r, s, flags) is not None
ReMatches(r, s, f) == MatchAt(r, s, 1, f) # NoMatch

\* re.search from position p on: <<start, end, groups>> of the leftmost match
\* (end exclusive), or NoMatch
SearchFrom(r, s, p, f) ==
  LET First(found) == CHOOSE t \in DOMAIN found :
                         /\ found[t] # NoMatch
                         /\ \A u \in 1..(t - 1) : found[u] = NoMatch
  IN  Only({IF \A t \in DOMAIN found : found[t] = NoMatch THEN NoMatch
            ELSE Only({<<p + first - 1, found[first][1], found[first][2]>> :
                         first \in {First(found)}}) :
              found \in {<<>> \o [t \in 1..(Len(s) + 2 - p) |->
                                    MatchAt(r, s, p + t - 1, f)]}})

ReSearch(r, s, f) == SearchFrom(r, s, 1, f)

\* the matches re.findall and re.finditer walk through, left to right and
\* not overlapping
RECURSIVE MatchesFrom(_, _, _, _)
MatchesFrom(r, s, p, f) ==
  Only({IF m = NoMatch THEN <<>>
        ELSE <<m>> \o MatchesFrom(r, s, IF m[2] > m[1] THEN m[2] ELSE m[2] + 1, f) :
          m \in {SearchFrom(r, s, p, f)}})

\* m.group(0) and m.group(n)
Group0(s, m) == Slice(s, m[1], m[2])
GroupN(s, m, n) == Slice(s, m[3][n][1], m[3][n][2])

(***************************************************************************)
(* preserve_enhanced_numbering: the line classifier                        *)
(***************************************************************************)
\* the numbering_patterns list, in its order: <<pattern, css_class>>
RomanNumberRe ==
  Cat(<<Bol, Star(ReSpace), Plus(Cls({"I", "V", "X"})), Cls({".", ")"}),
        Plus(ReSpace)>>)
NumberedParenthesesRe ==
  Cat(<<Bol, Star(ReSpace), Cls({"("}), Plus(ReDigit), Cls({")"}), Plus(ReSpace)>>)
NumberedDotsRe ==
  Cat(<<Bol, Star(ReSpace), Plus(ReDigit), Cls({"."}), Plus(ReSpace)>>)
LetteredPointsRe ==
  Cat(<<Bol, Star(ReSpace), Cls({"("}), Cls(Lower), Cls({")"}), Plus(ReSpace)>>)
SubPointsRe ==
  Cat(<<Bol, Star(ReSpace), Cls({"("}), Plus(Cls({"i", "v", "x", "l", "c"})),
        Cls({")"}), Plus(ReSpace)>>)
LetteredCapsRe ==
  Cat(<<Bol, Star(ReSpace), Cls(Upper), Cls({"."}), Plus(ReSpace)>>)
NumberedSimpleRe ==
  Cat(<<Bol, Star(ReSpace), Plus(ReDigit), Cls({")"}), Plus(ReSpace)>>)
BulletPointRe ==
  Cat(<<Bol, Star(ReSpace), Cls({"bullet"}), Plus(ReSpace)>>)
DashPointRe ==
  Cat(<<Bol, Star(ReSpace), Cls({"-"}), Plus(ReSpace)>>)

numbering_patterns ==
  << <<RomanNumberRe, "roman-number">>,
     <<NumberedParenthesesRe, "numbered-parentheses">>,
     <<NumberedDotsRe, "numbered-dots">>,
     <<LetteredPointsRe, "lettered-points">>,
     <<SubPointsRe, "sub-points">>,
     <<LetteredCapsRe, "lettered-caps">>,
     <<NumberedSimpleRe, "numbered-simple">>,
     <<BulletPointRe, "bullet-point">>,
     <<DashPointRe, "dash-point">> >>

NumberingClasses == {numbering_patterns[i][2] : i \in DOMAIN numbering_patterns}

\* the for loop over numbering_patterns with its break: the class of the
\* first pattern that matches from entry n on, "" when none does
RECURSIVE FirstNumbering(_, _)
FirstNumbering(line, n) ==
  IF n > Len(numbering_patterns) THEN ""
  ELSE IF ReMatches(numbering_patterns[n][1], line, NoFlags)
       THEN numbering_patterns[n][2]
       ELSE FirstNumbering(line, n + 1)

\* "--- PAGE"
PageMarkerPrefix ==
  <<"-", "-", "-", " ", "P", "A", "G", "E">>
\* "VS"
S_VS ==
  <<"V", "S">>
\* "V/S"
S_V_S ==
  <<"V", "/", "S">>
\* "VERSUS"
S_VERSUS ==
  <<"V", "E", "R", "S", "U", "S">>
\* "PRESENT:"
S_PRESENT ==
  <<"P", "R", "E", "S", "E", "N", "T", ":">>
\* "CORAM:"
S_CORAM ==
  <<"C", "O", "R", "A", "M", ":">>
\* "HEARD:"
S_HEARD ==
  <<"H", "E", "A", "R", "D", ":">>
\* "JUDGMENT:"
S_JUDGMENT ==
  <<"J", "U", "D", "G", "M", "E", "N", "T", ":">>
\* "ORDER:"
S_ORDER ==
  <<"O", "R", "D", "E", "R", ":">>

\* len(line) < 200 of the case-header test
CaseHeaderMaxLen == 200
\* len(line) > 10 of the all-caps test
AllCapsMinLen == 10

\* line.startswith('--- PAGE')
IsPageMarker(line) == StartsWith(line, PageMarkerPrefix)

\* any(pattern in line.upper() for pattern in ['VS', 'V/S', 'VERSUS']) and
\* len(line) < 200
IsCaseHeader(line) ==
  /\ \E pat \in {S_VS, S_V_S, S_VERSUS} : Contains(StrUpper(line), pat)
  /\ Len(line) < CaseHeaderMaxLen

\* any(phrase in line.upper() for phrase in ['PRESENT:', 'CORAM:', ...])
IsLegalHeading(line) ==
  \E phrase \in {S_PRESENT, S_CORAM, S_HEARD, S_JUDGMENT, S_ORDER} :
     Contains(StrUpper(line), phrase)

\* line.isupper() and len(line) > 10
IsAllCapsHeading(line) == IsUpper(line) /\ Len(line) > AllCapsMinLen

\* what formatted_lines.append receives: '' is the empty marker, every other
\* entry is f'<div class="{css_class}">{line}</div>'
EmptyMarker == [class |-> "", content |-> <<>>]
Div(css_class, line) == [class |-> css_class, content |-> line]

\* LineClass without the isupper/len test of its elif: every line that
\* matches nothing else is an all-caps heading
LineClass_NoCapsTest(line) ==
  IF IsPageMarker(line) THEN "page-marker"
  ELSE IF IsCaseHeader(line) THEN "case-header"
  ELSE IF FirstNumbering(line, 1) # "" THEN FirstNumbering(line, 1)
  ELSE IF IsLegalHeading(line) THEN "legal-heading"
  ELSE "all-caps-heading"

\* LineClass with the all-caps test moved before the numbering patterns
LineClass_CapsFirst(line) ==
  IF IsPageMarker(line) THEN "page-marker"
  ELSE IF IsCaseHeader(line) THEN "case-header"
  ELSE IF IsAllCapsHeading(line) THEN "all-caps-heading"
  ELSE IF FirstNumbering(line, 1) # "" THEN FirstNumbering(line, 1)
  ELSE IF IsLegalHeading(line) THEN "legal-heading"
  ELSE "paragraph"

\* LineClass with the legal phrases tested before the numbering patterns
LineClass_LegalFirst(line) ==
  IF IsPageMarker(line) THEN "page-marker"
  ELSE IF IsCaseHeader(line) THEN "case-header"
  ELSE IF IsLegalHeading(line) THEN "legal-heading"
  ELSE IF FirstNumbering(line, 1) # "" THEN FirstNumbering(line, 1)
  ELSE IF IsAllCapsHeading(line) THEN "all-caps-heading"
  ELSE "paragraph"

\* the if chain of the loop body, for a stripped, non-empty line
LineClass(line) ==
  IF IsPageMarker(line) THEN "page-marker"
  ELSE IF IsCaseHeader(line) THEN "case-header"
  ELSE IF FirstNumbering(line, 1) # "" THEN FirstNumbering(line, 1)
  ELSE IF IsLegalHeading(line) THEN "legal-heading"
  ELSE IF IsAllCapsHeading(line) THEN "all-caps-heading"
  ELSE "paragraph"

\* one iteration of the loop: what it appends for the raw line
FormatLine(original_line) ==
  LET line == Strip(original_line)
  IN  IF line = <<>> THEN EmptyMarker ELSE Div(LineClass(line), line)

\* the whole function, before the final join
FormatLines(text) ==
  LET lines == Split(text, "\n")
  IN  [i \in DOMAIN lines |-> FormatLine(lines[i])]

(***************************************************************************)
(* The floats of the confidence scores: IEEE 754 doubles, none negative.   *)
(* A binary number is [e, b]: b holds its bits from the leading 1 to the   *)
(* last 1 and e is the exponent of the leading bit, so the number is the   *)
(* sum of b[i] * 2^(e + 1 - i); zero has no bits.  Two numbers are equal   *)
(* when their records are.  A double has at most MantissaBits bits; the    *)
(* result of an operation is the exact result rounded to the nearest       *)
(* double, to the even one of two nearest.                                 *)
(***************************************************************************)
MantissaBits == 53
FZero == [e |-> 0, b |-> <<>>]

\* the bit of x of weight 2^w
Bit(x, w) ==
  LET i == x.e + 1 - w
  IN  IF i >= 1 /\ i <= Len(x.b) THEN x.b[i] ELSE 0
\* the weight of the last bit of x
Lowest(x) == x.e + 1 - Len(x.b)

\* the number whose bit of weight w is bit[w], for w in lo..hi
FromWeights(bit, lo, hi) ==
  LET ones == {w \in lo..hi : bit[w] = 1}
      top == MaxOf(ones)
      bottom == MinOf(ones)
  IN  IF ones = {} THEN FZero
      ELSE [e |-> top,
          b |-> [i \in 1..(top - bottom + 1) |-> bit[top + 1 - i]]]

\* int to float, for 0 <= k < 2^30
FromInt(k) == FromWeights([w \in 0..30 |-> (k \div (2 ^ w)) % 2], 0, 30)

\* the carry into the bit of weight w when x and y are added: the nearest
\* weight below w where the bits of x and y are equal decides it, both 1 is
\* a carry and both 0 is none
CarryInto(x, y, w, lo) ==
  LET d == CHOOSE c \in 1..(w - lo + 1) :
             /\ Bit(x, w - c) = Bit(y, w - c)
             /\ \A b \in 1..(c - 1) : Bit(x, w - b) # Bit(y, w - b)
  IN  Bit(x, w - d)

\* x + y, exact
ExactAdd(x, y) ==
  IF x = FZero THEN y
  ELSE IF y = FZero THEN x
  ELSE LET lo == IF Lowest(x) < Lowest(y) THEN Lowest(x) ELSE Lowest(y)
           hi == (IF x.e > y.e THEN x.e ELSE y.e) + 1
       IN  FromWeights([w \in lo..hi |->
                          (Bit(x, w) + Bit(y, w) + CarryInto(x, y, w,
                              lo)) % 2],
                       lo, hi)

\* the nearest double
Round53(x) ==
  IF Len(x.b) <= MantissaBits THEN x
  ELSE LET cut == x.e - MantissaBits
           kept == FromWeights([w \in (cut + 1)..x.e |-> Bit(x, w)], cut + 1,
               x.e)
           sticky == \E w \in Lowest(x)..(cut - 1) : Bit(x, w) = 1
           up == Bit(x, cut) = 1 /\ (sticky \/ Bit(x, cut + 1) = 1)
       IN  IF up THEN ExactAdd(kept, [e |-> cut + 1, b |-> <<1>>]) ELSE kept

\* x * 2^n
Shift(x, n) == IF x = FZero THEN x ELSE [x EXCEPT !.e = @ + n]

\* x * k, exact, for an int 0 <= k < 2^30: the sum of the x * 2^w for the
\* bits of k of the weights lo to hi, by halves
RECURSIVE MulRange(_, _, _, _)
MulRange(x, k, lo, hi) ==
  IF lo = hi THEN (IF (k \div (2 ^ lo)) % 2 = 1 THEN Shift(x, lo) ELSE FZero)
  ELSE ExactAdd(MulRange(x, k, lo, (lo + hi) \div 2),
                MulRange(x, k, ((lo + hi) \div 2) + 1, hi))
ExactMul(x, k) ==
  IF k = 0 THEN FZero
  ELSE MulRange(x, k, 0, CHOOSE h \in 0..30 : 2 ^ h <= k /\ k \div 2 < 2 ^ h)

\* the bits of the quotient x / n of the weights hi down to lo, the highest
\* first, for the remainder r left above hi, and the remainder left after
\* lo: by halves, the upper one first
RECURSIVE DivRange(_, _, _, _, _)
DivRange(x, n, hi, lo, r) ==
  IF lo = hi
  THEN LET t == 2 * r + Bit(x, hi)
       IN  [bits |-> <<t \div n>>, rest |-> t % n]
  ELSE LET mid == (lo + hi) \div 2
           upper == DivRange(x, n, hi, mid + 1, r)
           lower == DivRange(x, n, mid, lo, upper.rest)
       IN  [bits |-> upper.bits \o lower.bits, rest |-> lower.rest]

\* x / n for a double x and an int 0 < n < 16: the quotient has its leading
\* bit within four places of that of x, so 60 places hold the bits that
\* round it; one more bit after them stands for a remainder
FloatDiv(x, n) ==
  IF x = FZero THEN FZero
  ELSE LET lo == x.e - 60
           q == DivRange(x, n, x.e, lo, 0)
           bits == q.bits \o <<IF q.rest # 0 THEN 1 ELSE 0>>
       IN  Round53(FromWeights([w \in (lo - 1)..x.e |-> bits[x.e - w + 1]],
                               lo - 1, x.e))

FloatAdd(x, y) == Round53(ExactAdd(x, y))
FloatMul(x, k) == Round53(ExactMul(x, k))

\* x < y
FloatLess(x, y) ==
  IF y = FZero THEN FALSE
  ELSE IF x = FZero THEN TRUE
  ELSE IF x.e # y.e THEN x.e < y.e
  ELSE \E w \in Lowest(y)..y.e :
          /\ Bit(x, w) < Bit(y, w)
          /\ \A v \in (w + 1)..y.e : Bit(x, v) = Bit(y, v)
FloatMin(x, y) == IF FloatLess(y, x) THEN y ELSE x

\* the double nearest to t / 10
NearestTenth(t) == FloatDiv(FromInt(t), 10)
\* the float literals of the source, 0.1 to 1.0
Literals == <<>> \o [t \in 1..10 |-> NearestTenth(t)]
\* the float literal t / 10 of the source: 0.1 is Fl(1), 1.0 is Fl(10)
Fl(t) == Literals[t]

\* the integer nearest to x, the even one of two nearest, for x < 2^30
RoundToInt(x) ==
  LET RECURSIVE Whole(_)
      Whole(w) == IF w > x.e THEN 0 ELSE Bit(x, w) * (2 ^ w) + Whole(w + 1)
      whole == IF x = FZero \/ x.e < 0 THEN 0 ELSE Whole(0)
      sticky == \E w \in Lowest(x)..(-2) : Bit(x, w) = 1
  IN  IF x # FZero /\ Bit(x, -1) = 1 /\ (sticky \/ whole % 2 = 1)
      THEN whole + 1 ELSE whole

\* the number n of f'{x:.1%}', which reads n / 10 and '%': x is multiplied
\* by 100 as a float and printed with one decimal
PerMille(x) == RoundToInt(ExactMul(FloatMul(x, 100), 10))

(***************************************************************************)
(* smart_parse_judgment_structure and its helpers                          *)
(***************************************************************************)
\* re.sub(r'\s+', ' ', s): every run of whitespace becomes one space
CollapseSpace(text) ==
  Only({Flatten([i \in DOMAIN s |->
                   IF s[i] \notin Space THEN <<s[i]>>
                   ELSE IF i > 1 /\ s[i - 1] \in Space THEN <<>>
                   ELSE <<" ">>]) : s \in {text}})

\* s.replace(old, new) for an old that cannot overlap itself
StrReplace(text, old, new) ==
  LET n == Len(old)
      Hits(s) == {i \in 1..(Len(s) - n + 1) : SubSeq(s, i, i + n - 1) = old}
      Replaced(s, hits) ==
        Flatten([i \in DOMAIN s |->
                   IF i \in hits THEN new
                   ELSE IF \E h \in hits : h < i /\ i < h + n THEN <<>>
                   ELSE <<s[i]>>])
  IN  Only({Only({Replaced(s, hits) : hits \in {Hits(s)}}) : s \in {text}})

\* re.sub(r'(\w)([A-Z])', r'\1 \2', s): the matches are found left to
\* right and do not overlap, so in a run of positions where a word
\* character is followed by a capital every second one is a match
SpaceCaps(text) ==
  LET Cand(s) == {i \in 1..(Len(s) - 1) : s[i] \in WordChar /\ s[i + 1] \in Upper}
      Hits(cand) ==
        {i \in cand : (i - MaxOf({j \in 0..(i - 1) : j \notin cand})) % 2 = 1}
      Spaced(s, hits) ==
        Flatten([i \in DOMAIN s |->
                   IF i \in hits THEN <<s[i], " ">> ELSE <<s[i]>>])
  IN  Only({Only({Only({Spaced(s, hits) : hits \in {Hits(cand)}}) :
                    cand \in {Cand(s)}}) : s \in {text}})

\* the quote normalisation: each of its replace calls puts '"' for '"'
NormalizeQuotes(s) == StrReplace(StrReplace(s, <<"\"">>, <<"\"">>), <<"\"">>,
    <<"\"">>)

_clean_text(text) ==
  LET spaced == CollapseSpace(text)
      hyphened == StrReplace(spaced, <<"A_circ", "shy">>, <<"-">>)
      ocr == StrReplace(hyphened, <<"A_circ">>, <<>>)
  IN  SpaceCaps(NormalizeQuotes(ocr))

\* re.findall(r, s, flags) for a pattern with no group, and with one group
FindAll(r, text, f) ==
  Only({Only({<<>> \o [k \in DOMAIN ms |-> Group0(s, ms[k])] :
                ms \in {MatchesFrom(r, s, 1, f)}}) : s \in {text}})
FindAllGroup(r, text, f) ==
  Only({Only({<<>> \o [k \in DOMAIN ms |-> GroupN(s, ms[k], 1)] :
                ms \in {MatchesFrom(r, s, 1, f)}}) : s \in {text}})

\* re.sub(r, repl, s, flags) for a pattern that matches no empty string and
\* a repl without group references
ReSub(r, repl, text, f) ==
  LET Pieces(s, ms, n) ==
        Flatten([k \in 1..(2 * n + 1) |->
                   IF k % 2 = 0 THEN repl
                   ELSE LET j == (k + 1) \div 2
                        IN  Slice(s, IF j = 1 THEN 1 ELSE ms[j - 1][2],
                                     IF j = n + 1 THEN Len(s) + 1 ELSE ms[j][1])])
  IN  Only({Only({Pieces(s, ms, Len(ms)) : ms \in {MatchesFrom(r, s, 1, f)}}) :
              s \in {text}})

\* [strip(x) for x in xs]
StripAll(xs) == Only({<<>> \o [k \in DOMAIN ys |-> Strip(ys[k])] : ys \in {xs}})

\* a list of literal alternatives: a|b|c
AltLit(strs) == Alt([k \in DOMAIN strs |-> Lit(strs[k])])

\* any(k in s for k in keys)
ContainsAny(s, keys) == \E k \in DOMAIN keys : Contains(s, keys[k])

\* re.IGNORECASE | re.MULTILINE | re.DOTALL differs from IgnoreCaseMultiline
\* in the pattern: its '.' is ReAny, not ReDot

\* \s*, \s+ and \d{2,4}
Spaces0 == Star(ReSpace)
Spaces1 == Plus(ReSpace)
Digits24 == Rep(ReDigit, 2, 4)
Digits12 == Rep(ReDigit, 1, 2)
\* (?:/\d{2,4})?
YearSuffix == Opt(Cat(<<Lit(<<"/">>), Digits24>>))
\* No[.:]?\s*\d+(?:/\d{2,4})?
NoNumber ==
  Cat(<<Lit(<<"N", "o">>), Opt(Cls({".", ":"})), Spaces0, Plus(ReDigit),
      YearSuffix>>)

\* the prefixes of the first case_number pattern
CasePrefixes ==
  <<<<"O", "M", "P">>, <<"C", "R", "L">>, <<"C", "S">>, <<"C", "C">>, <<"S",
      "A">>, <<"F", "A", "O">>, <<"C", "R", "P">>, <<"M", "A", "C">>,
    <<"R", "F", "A">>, <<"C", "R", "P">>, <<"M", "A", "N", "U">>, <<"A", "I",
        "R">>, <<"W", "P">>, <<"C", "P">>, <<"O", "P">>, <<"F", "P">>,
    <<"L", "P">>, <<"M", "P">>, <<"B", "A", "I", "L">>, <<"R", "E", "V">>,
        <<"A", "P", "P">>, <<"S", "L", "P">>, <<"C", "A">>, <<"C", "I", "V",
        "I", "L">>,
    <<"C", "R", "I", "M", "I", "N", "A", "L">>>>

\* self.patterns['case_number']
CaseNumberPrefixRe ==
  Cat(<<AltLit(CasePrefixes), Spaces0,
        Opt(Cat(<<Lit(<<"(">>), Star(Cls({"I", "V", "X"})), Lit(<<")">>)>>)),
        Spaces0,
        Opt(Alt(<<Cat(<<Lit(<<"N", "o">>), Opt(Lit(<<".">>))>>),
            Lit(<<"/">>)>>)),
        Spaces0, Plus(ReDigit), YearSuffix>>)
CaseNoRe == Cat(<<Lit(<<"C", "a", "s", "e">>), Spaces1, NoNumber>>)
PetitionNoRe ==
  Cat(<<Lit(<<"P", "e", "t">>), Opt(Lit(<<"i", "t", "i", "o", "n">>)),
      Spaces1, NoNumber>>)
ApplicationNoRe == Cat(<<Lit(<<"A", "p", "p", "l", "i", "c", "a", "t", "i",
    "o", "n">>), Spaces1, NoNumber>>)
case_number_patterns ==
  <<CaseNumberPrefixRe, CaseNoRe, PetitionNoRe, ApplicationNoRe>>

\* r'/(\d{2,4})$'
YearRe == Cat(<<Lit(<<"/">>), Grp(1, Digits24), Eol>>)
\* r'\d+/\d{4}'
NumberYearRe == Cat(<<Plus(ReDigit), Lit(<<"/">>), Rep(ReDigit, 4, 4)>>)
\* the prefixes that earn a case number its format bonus
BonusPrefixes == <<<<"O", "M", "P">>, <<"C", "R", "L">>, <<"C", "S">>, <<"C",
    "C">>, <<"S", "A">>>>

MonthNames ==
  <<<<"J", "a", "n", "u", "a", "r", "y">>, <<"F", "e", "b", "r", "u", "a",
      "r", "y">>, <<"M", "a", "r", "c", "h">>, <<"A", "p", "r", "i", "l">>,
      <<"M", "a", "y">>, <<"J", "u", "n", "e">>,
    <<"J", "u", "l", "y">>, <<"A", "u", "g", "u", "s", "t">>, <<"S", "e",
        "p", "t", "e", "m", "b", "e", "r">>, <<"O", "c", "t", "o", "b", "e",
        "r">>, <<"N", "o", "v", "e", "m", "b", "e", "r">>,
    <<"D", "e", "c", "e", "m", "b", "e", "r">>>>
\* (?:st|nd|rd|th)?
Ordinal == Opt(AltLit(<<<<"s", "t">>, <<"n", "d">>, <<"r", "d">>, <<"t",
    "h">>>>))
\* [./\-]
DateSep == Cls({".", "/", "-"})
\* \s*,?\s*\d{2,4}\b
CommaYear == Cat(<<Spaces0, Opt(Lit(<<",">>)), Spaces0, Digits24, WordB>>)

\* self.patterns['date']
NumericDateRe ==
  Cat(<<WordB, Digits12, DateSep, Digits12, DateSep, Digits24, WordB>>)
DayMonthRe ==
  Cat(<<WordB, Digits12, Ordinal, Spaces1, AltLit(MonthNames), CommaYear>>)
MonthDayRe ==
  Cat(<<WordB, AltLit(MonthNames), Spaces1, Digits12, Ordinal, CommaYear>>)
date_patterns == <<NumericDateRe, DayMonthRe, MonthDayRe>>

\* (?:VS?\.?|V/S|VERSUS)
VsRe ==
  Alt(<<Cat(<<Lit(<<"V">>), Opt(Lit(<<"S">>)), Opt(Lit(<<".">>))>>),
      Lit(<<"V", "/", "S">>),
        Lit(<<"V", "E", "R", "S", "U", "S">>)>>)
\* (.+?)\s+(?:VS?\.?|V/S|VERSUS)\s+(.+?), under DOTALL
PartiesCore ==
  Cat(<<Grp(1, LazyRep(ReAny, 1, -1)), Spaces1, VsRe, Spaces1,
        Grp(2, LazyRep(ReAny, 1, -1))>>)
\* \d{1,2}[./]\d{1,2}[./]\d{2,4}
SlashDate ==
  Cat(<<Digits12, Cls({".", "/"}), Digits12, Cls({".", "/"}), Digits24>>)

\* self.patterns['parties_vs']
PartiesLineRe ==
  Cat(<<PartiesCore,
        Alt(<<Lit(<<"\n">>), Eol, Lit(<<"D", "a", "t", "e", ":">>),
            Lit(<<"P", "r", "e", "s", "e", "n", "t", ":">>),
              Lit(<<"C", "o", "r", "a", "m", ":">>)>>)>>)
PartiesDateRe == Cat(<<PartiesCore, Look(Cat(<<Spaces1, SlashDate>>))>>)
PartiesPetitionerRe ==
  Cat(<<Lit(<<"P", "e", "t", "i", "t", "i", "o", "n", "e", "r">>),
      Star(Cls({":"} \cup Space)), PartiesCore,
        Alt(<<Lit(<<"R", "e", "s", "p", "o", "n", "d", "e", "n", "t">>),
            Eol>>)>>)
parties_vs_patterns == <<PartiesLineRe, PartiesDateRe, PartiesPetitionerRe>>

\* r'^(Petitioner[:\s]*|Plaintiff[:\s]*)'
PetitionerPrefixRe ==
  Cat(<<Bol, Alt(<<Cat(<<Lit(<<"P", "e", "t", "i", "t", "i", "o", "n", "e",
      "r">>), Star(Cls({":"} \cup Space))>>),
                   Cat(<<Lit(<<"P", "l", "a", "i", "n", "t", "i", "f",
                       "f">>), Star(Cls({":"} \cup Space))>>)>>)>>)
\* r'(Respondent[:\s]*|Defendant[:\s]*)$'
RespondentSuffixRe ==
  Cat(<<Alt(<<Cat(<<Lit(<<"R", "e", "s", "p", "o", "n", "d", "e", "n",
      "t">>), Star(Cls({":"} \cup Space))>>),
              Cat(<<Lit(<<"D", "e", "f", "e", "n", "d", "a", "n", "t">>),
                  Star(Cls({":"} \cup Space))>>)>>),
        Eol>>)

\* [A-Z][A-Za-z\s\.]+?
JudgeNameRe ==
  Cat(<<Cls(Upper), LazyRep(Cls(Upper \cup Lower \cup Space \cup {"."}), 1,
      -1)>>)
\* J\.?
JDot == Cat(<<Lit(<<"J">>), Opt(Lit(<<".">>))>>)
\* \s*,?\s*
CommaGap == Cat(<<Spaces0, Opt(Lit(<<",">>)), Spaces0>>)

\* self.patterns['judge']
JudgeTitledRe ==
  Cat(<<Opt(Cat(<<Lit(<<"H", "o", "n", "'", "b", "l", "e">>), Spaces1>>)),
        Alt(<<Lit(<<"M", "r", ".">>), Lit(<<"M", "s", ".">>),
            Cat(<<Lit(<<"J", "u", "s", "t", "i", "c", "e">>), Spaces1>>),
              Cat(<<Lit(<<"J", "u", "d", "g", "e">>), Spaces1>>),
              Cat(<<Lit(<<"M", "a", "g", "i", "s", "t", "r", "a", "t",
                  "e">>), Spaces1>>)>>),
        Grp(1, JudgeNameRe), CommaGap,
        Alt(<<JDot, Lit(<<"J", "u", "d", "g", "e">>), Lit(<<"D", "i", "s",
            "t", "r", "i", "c", "t", " ", "J", "u", "d", "g", "e">>),
              Lit(<<"M", "a", "g", "i", "s", "t", "r", "a", "t", "e">>),
                  Lit(<<"C", "J", "M">>)>>)>>)
JudgeSuffixRe ==
  Cat(<<Grp(1, JudgeNameRe), CommaGap,
        Alt(<<Lit(<<"D", "i", "s", "t", "r", "i", "c", "t", " ", "J", "u",
            "d", "g", "e">>), Lit(<<"M", "a", "g", "i", "s", "t", "r", "a",
            "t", "e">>), Lit(<<"C", "J", "M">>),
              JDot>>)>>)
CoramRe ==
  Cat(<<Lit(<<"C", "o", "r", "a", "m">>), Plus(Cls({":"} \cup Space)),
        Grp(1, LazyRep(ReDot, 1, -1)),
        Alt(<<Lit(<<"\n">>), Lit(<<"P", "r", "e", "s", "e", "n", "t", ":">>),
            Lit(<<"D", "a", "t", "e", ":">>)>>)>>)
judge_patterns == <<JudgeTitledRe, JudgeSuffixRe, CoramRe>>

\* r'(Hon\'ble\s+|Mr\.|Ms\.|Justice\s+)'
JudgeTitleRe ==
  Alt(<<Cat(<<Lit(<<"H", "o", "n", "'", "b", "l", "e">>), Spaces1>>),
      Lit(<<"M", "r", ".">>), Lit(<<"M", "s", ".">>),
        Cat(<<Lit(<<"J", "u", "s", "t", "i", "c", "e">>), Spaces1>>)>>)

\* a phrase whose words are separated by \s+
Words(ws) ==
  Cat([k \in 1..(2 * Len(ws) - 1) |->
         IF k % 2 = 1 THEN Lit(ws[(k + 1) \div 2]) ELSE Spaces1])

\* self.court_patterns, in the order of the dict: <<court type, patterns>>
court_patterns ==
  << <<"district",
       <<Cat(<<Lit(<<"D", "i", "s", "t", "r", "i", "c", "t">>), Spaces1,
               Opt(Cat(<<Lit(<<"a", "n", "d">>), Spaces1, Lit(<<"S", "e",
                   "s", "s", "i", "o", "n", "s">>), Spaces1>>)),
               Lit(<<"C", "o", "u", "r", "t">>)>>),
         Words(<<<<"D", "i", "s", "t", "r", "i", "c", "t">>, <<"J", "u", "d",
             "g", "e">>>>),
         Words(<<<<"A", "d", "d", "i", "t", "i", "o", "n", "a", "l">>, <<"D",
             "i", "s", "t", "r", "i", "c", "t">>, <<"J", "u", "d", "g",
             "e">>>>),
         Words(<<<<"C", "o", "m", "m", "e", "r", "c", "i", "a", "l">>, <<"C",
             "o", "u", "r", "t">>>>)>> >>,
     <<"magistrate",
       <<Words(<<<<"C", "h", "i", "e", "f">>, <<"J", "u", "d", "i", "c", "i",
           "a", "l">>, <<"M", "a", "g", "i", "s", "t", "r", "a", "t",
           "e">>>>),
         Words(<<<<"J", "u", "d", "i", "c", "i", "a", "l">>, <<"M", "a", "g",
             "i", "s", "t", "r", "a", "t", "e">>>>),
         Words(<<<<"M", "e", "t", "r", "o", "p", "o", "l", "i", "t", "a",
             "n">>, <<"M", "a", "g", "i", "s", "t", "r", "a", "t", "e">>>>),
         Lit(<<"C", "J", "M">>), Lit(<<"A", "C", "J", "M">>)>> >>,
     <<"high",
       <<Words(<<<<"H", "i", "g", "h">>, <<"C", "o", "u", "r", "t">>>>),
         Words(<<<<"H", "o", "n", "'", "b", "l", "e">>, <<"H", "i", "g",
             "h">>, <<"C", "o", "u", "r", "t">>>>)>> >>,
     <<"supreme",
       <<Words(<<<<"S", "u", "p", "r", "e", "m", "e">>, <<"C", "o", "u", "r",
           "t">>>>),
         Words(<<<<"H", "o", "n", "'", "b", "l", "e">>, <<"S", "u", "p", "r",
             "e", "m", "e">>, <<"C", "o", "u", "r", "t">>>>)>> >>,
     <<"tribunal",
       <<Lit(<<"T", "r", "i", "b", "u", "n", "a", "l">>), Lit(<<"N", "C",
           "L", "T">>), Lit(<<"N", "C", "L", "A", "T">>), Lit(<<"A", "F",
           "T">>),
         Lit(<<"C", "A", "T">>)>> >> >>

\* rf'([^.\n]*{pattern}[^.\n]*)'
CourtNameRe(pattern) ==
  Grp(1, Cat(<<Star(NotCls({".", "\n"})), pattern, Star(NotCls({".",
      "\n"}))>>))

\* the default of _identify_court_type
DefaultCourtName == <<"D", "i", "s", "t", "r", "i", "c", "t", " ", "C", "o",
    "u", "r", "t">>

\* (?:Sh\.|Ms\.|Mr\.) and [A-Za-z\s\.]
CounselTitle == AltLit(<<<<"S", "h", ".">>, <<"M", "s", ".">>, <<"M", "r",
    ".">>>>)
CounselNameChar == Cls(Upper \cup Lower \cup Space \cup {"."})
\* (?:,?\s*(?:Ld\.|Learned)?\s*(?:Counsel|Advocate))
CounselSuffix ==
  Cat(<<Opt(Lit(<<",">>)), Spaces0, Opt(AltLit(<<<<"L", "d", ".">>, <<"L",
      "e", "a", "r", "n", "e", "d">>>>)),
        Spaces0, AltLit(<<<<"C", "o", "u", "n", "s", "e", "l">>, <<"A", "d",
            "v", "o", "c", "a", "t", "e">>>>)>>)

\* self.patterns['counsel']
CounselNamedRe ==
  Cat(<<AltLit(<<<<"S", "h", ".">>, <<"M", "s", ".">>, <<"M", "r", ".">>,
      <<"A", "d", "v", ".">>>>), Spaces1,
        Grp(1, LazyRep(CounselNameChar, 1, -1)), CounselSuffix>>)
CounselLabelRe ==
  Cat(<<Opt(Cat(<<Lit(<<"L", "e", "a", "r", "n", "e", "d">>), Spaces1>>)),
        AltLit(<<<<"C", "o", "u", "n", "s", "e", "l">>, <<"A", "d", "v", "o",
            "c", "a", "t", "e">>>>), Plus(Cls({":"} \cup Space)),
        CounselTitle, Spaces1, Grp(1, Plus(CounselNameChar))>>)
CounselPresentRe ==
  Cat(<<Lit(<<"P", "r", "e", "s", "e", "n", "t">>),
      Plus(Cls({":"} \cup Space)), CounselTitle, Spaces1,
        Grp(1, LazyRep(CounselNameChar, 1, -1)), CounselSuffix>>)
counsel_patterns == <<CounselNamedRe, CounselLabelRe, CounselPresentRe>>

\* r'Present[:\s]+(.*?)(?=\n\n|\nThis|\nHeard|\nCase)', under DOTALL
PresentSectionRe ==
  Cat(<<Lit(<<"P", "r", "e", "s", "e", "n", "t">>),
      Plus(Cls({":"} \cup Space)),
        Grp(1, LazyRep(ReAny, 0, -1)),
        Look(AltLit(<<<<"\n", "\n">>, <<"\n", "T", "h", "i", "s">>, <<"\n",
            "H", "e", "a", "r", "d">>, <<"\n", "C", "a", "s", "e">>>>))>>)

\* the case_types dict of _determine_case_type, in its order
case_types ==
  << <<<<"O", "M", "P">>, <<"O", "r", "i", "g", "i", "n", "a", "l", " ", "M",
      "a", "i", "n", " ", "P", "e", "t", "i", "t", "i", "o", "n">>>>,
     <<<<"C", "R", "L">>, <<"C", "r", "i", "m", "i", "n", "a", "l">>>>,
     <<<<"C", "S">>, <<"C", "i", "v", "i", "l", " ", "S", "u", "i", "t">>>>,
     <<<<"C", "C">>, <<"C", "i", "v", "i", "l", " ", "C", "a", "s", "e">>>>,
     <<<<"S", "A">>, <<"S", "e", "c", "o", "n", "d", " ", "A", "p", "p", "e",
         "a", "l">>>>,
     <<<<"F", "A", "O">>, <<"F", "i", "r", "s", "t", " ", "A", "p", "p", "e",
         "a", "l", " ", "f", "r", "o", "m", " ", "O", "r", "d", "e", "r">>>>,
     <<<<"C", "R", "P">>, <<"C", "i", "v", "i", "l", " ", "R", "e", "v", "i",
         "s", "i", "o", "n", " ", "P", "e", "t", "i", "t", "i", "o", "n">>>>,
     <<<<"M", "A", "C">>, <<"M", "o", "t", "o", "r", " ", "A", "c", "c", "i",
         "d", "e", "n", "t", " ", "C", "l", "a", "i", "m", "s">>>>,
     <<<<"R", "F", "A">>, <<"R", "e", "g", "u", "l", "a", "r", " ", "F", "i",
         "r", "s", "t", " ", "A", "p", "p", "e", "a", "l">>>>,
     <<<<"W", "P">>, <<"W", "r", "i", "t", " ", "P", "e", "t", "i", "t", "i",
         "o", "n">>>>,
     <<<<"C", "P">>, <<"C", "i", "v", "i", "l", " ", "P", "e", "t", "i", "t",
         "i", "o", "n">>>>,
     <<<<"B", "A", "I", "L">>, <<"B", "a", "i", "l", " ", "A", "p", "p", "l",
         "i", "c", "a", "t", "i", "o", "n">>>>
  >>
UnknownCaseType == <<"U", "n", "k", "n", "o", "w", "n">>
CivilCaseType == <<"C", "i", "v", "i", "l">>

\* the subjects dict of _extract_subject_matter, in its order
subjects ==
  << <<<<"a", "r", "b", "i", "t", "r", "a", "t", "i", "o", "n">>, <<<<"a",
      "r", "b", "i", "t", "r", "a", "t", "i", "o", "n">>, <<"a", "r", "b",
      "i", "t", "r", "a", "t", "o", "r">>, <<"a", "r", "b", "i", "t", "r",
      "a", "l">>>> >>,
     <<<<"m", "o", "t", "o", "r", "_", "a", "c", "c", "i", "d", "e", "n",
         "t">>,
       <<<<"m", "o", "t", "o", "r", " ", "a", "c", "c", "i", "d", "e", "n",
           "t">>, <<"v", "e", "h", "i", "c", "l", "e", " ", "a", "c", "c",
           "i", "d", "e", "n", "t">>, <<"m", "a", "c">>>> >>,
     <<<<"p", "r", "o", "p", "e", "r", "t", "y">>, <<<<"p", "r", "o", "p",
         "e", "r", "t", "y">>, <<"l", "a", "n", "d">>, <<"i", "m", "m", "o",
         "v", "a", "b", "l", "e">>>> >>,
     <<<<"c", "o", "n", "t", "r", "a", "c", "t">>, <<<<"c", "o", "n", "t",
         "r", "a", "c", "t">>, <<"a", "g", "r", "e", "e", "m", "e", "n",
         "t">>, <<"b", "r", "e", "a", "c", "h">>>> >>,
     <<<<"c", "r", "i", "m", "i", "n", "a", "l">>, <<<<"c", "r", "i", "m",
         "i", "n", "a", "l">>, <<"o", "f", "f", "e", "n", "c", "e">>, <<"c",
         "r", "i", "m", "e">>>> >>,
     <<<<"m", "a", "t", "r", "i", "m", "o", "n", "i", "a", "l">>, <<<<"d",
         "i", "v", "o", "r", "c", "e">>, <<"m", "a", "r", "r", "i", "a", "g",
         "e">>, <<"m", "a", "t", "r", "i", "m", "o", "n", "i", "a",
         "l">>>> >>,
     <<<<"s", "e", "r", "v", "i", "c", "e">>, <<<<"s", "e", "r", "v", "i",
         "c", "e", " ", "m", "a", "t", "t", "e", "r">>, <<"e", "m", "p", "l",
         "o", "y", "m", "e", "n", "t">>, <<"t", "e", "r", "m", "i", "n", "a",
         "t", "i", "o", "n">>>> >>,
     <<<<"c", "h", "e", "q", "u", "e", "_", "b", "o", "u", "n", "c", "e">>,
         <<<<"c", "h", "e", "q", "u", "e">>, <<"d", "i", "s", "h", "o", "n",
         "o", "u", "r">>, <<"1", "3", "8", " ", "N", "I", " ", "a", "c",
         "t">>>> >>,
     <<<<"b", "a", "i", "l">>, <<<<"b", "a", "i", "l">>, <<"a", "n", "t",
         "i", "c", "i", "p", "a", "t", "o", "r", "y", " ", "b", "a", "i",
         "l">>>> >>,
     <<<<"l", "o", "a", "n">>, <<<<"l", "o", "a", "n">>, <<"f", "i", "n",
         "a", "n", "c", "e">>, <<"r", "e", "p", "a", "y", "m", "e", "n",
         "t">>, <<"i", "n", "s", "t", "a", "l", "l", "m", "e", "n", "t">>>> >>
  >>
GeneralSubject == <<"G", "e", "n", "e", "r", "a", "l">>

\* str.title(): a letter after a letter is lower case, every other letter
\* upper case
StrTitle(s) ==
  [i \in DOMAIN s |->
     IF i > 1 /\ s[i - 1] \in Upper \cup Lower THEN LoChar(s[i]) ELSE UpChar(s[i])]

\* position < len(text) * fraction, an int against a float
IntLessFloat(k, x) == k < 0 \/ FloatLess(FromInt(k), x)

\* the score _extract_with_confidence gives one match
MatchScore(text, matches, match, field_type) ==
  LET frequency == Cardinality({j \in DOMAIN matches : matches[j] = match})
  IN  With(FindFrom(text, match, 1) - 1, LAMBDA position :
      With(IF IntLessFloat(position, FloatMul(Fl(1), Len(text)))
           THEN FloatAdd(FZero, Fl(4))
           ELSE IF IntLessFloat(position, FloatMul(Fl(3), Len(text)))
           THEN FloatAdd(FZero, Fl(2))
           ELSE FZero, LAMBDA placed :
      With(FloatAdd(placed, FloatMin(FloatMul(Fl(1), frequency), Fl(3))),
           LAMBDA counted :
      With(IF field_type = "case_number"
              /\ ReSearch(NumberYearRe, match, NoFlags) # NoMatch
           THEN FloatAdd(counted, Fl(3)) ELSE counted, LAMBDA dated :
        IF field_type = "case_number"
           /\ ContainsAny(StrUpper(match), BonusPrefixes)
        THEN FloatAdd(dated, Fl(2)) ELSE dated))))

\* max(scored_matches, key=...): the index of the first highest score
FirstMax(scores) ==
  MinOf({k \in DOMAIN scores :
           \A j \in DOMAIN scores : ~FloatLess(scores[k], scores[j])})

\* returns (match, confidence)
_extract_with_confidence(text, patterns, field_type) ==
  With(Flatten([p \in DOMAIN patterns |->
                  StripAll(FindAll(patterns[p], text, IgnoreCaseMultiline))]),
       LAMBDA matches :
    IF matches = <<>> THEN [match |-> <<>>, confidence |-> FZero]
    ELSE
      \* scored_matches, a list: each score is computed once
      With(<<>> \o [k \in DOMAIN matches |->
                     MatchScore(text, matches, matches[k], field_type)],
           LAMBDA scores :
      With(FirstMax(scores), LAMBDA best :
        [match |-> matches[best],
         confidence |-> FloatMin(scores[best], Fl(10))])))

\* None of an Optional result
None == [none |-> TRUE]

\* the for loop of _extract_parties_enhanced returns at the first pattern
\* that matches
_extract_parties_enhanced(text) ==
  With(<<>> \o [n \in DOMAIN parties_vs_patterns |->
                 ReSearch(parties_vs_patterns[n], text, IgnoreCaseMultiline)],
       LAMBDA found :
  With(FirstTrue([n \in DOMAIN found |-> found[n] # NoMatch]), LAMBDA n :
    IF n = 0 THEN None
    ELSE
      With(ReSub(PetitionerPrefixRe, <<>>,
                 CollapseSpace(Strip(GroupN(text, found[n], 1))), IgnoreCase),
           LAMBDA petitioner :
      With(ReSub(RespondentSuffixRe, <<>>,
                 CollapseSpace(Strip(GroupN(text, found[n], 2))), IgnoreCase),
           LAMBDA respondent :
      With(IF Len(petitioner) > 10 /\ Len(respondent) > 10
           THEN FloatAdd(Fl(7), Fl(2)) ELSE Fl(7), LAMBDA complete :
      With(IF ~\E i \in DOMAIN (petitioner \o respondent) :
                 (petitioner \o respondent)[i] \in {"(", ")", "[", "]"}
           THEN FloatAdd(complete, Fl(1)) ELSE complete, LAMBDA clean :
        [petitioner |-> petitioner, respondent |-> respondent,
         confidence |-> FloatMin(clean, Fl(10))]))))))

\* the regular expressions datetime.strptime turns the directives %d, %m,
\* %Y, %y, %B and %b into: the day is group 1, the month 2, the year 3
NonZeroDigit == Cls(Digit \ {"0"})
StrpDay ==
  Grp(1, Alt(<<Cat(<<Lit(<<"3">>), Cls({"0", "1"})>>),
               Cat(<<Cls({"1", "2"}), ReDigit>>),
               Cat(<<Lit(<<"0">>), NonZeroDigit>>),
               NonZeroDigit,
               Cat(<<Lit(<<" ">>), NonZeroDigit>>)>>))
StrpMonth ==
  Grp(2, Alt(<<Cat(<<Lit(<<"1">>), Cls({"0", "1", "2"})>>),
               Cat(<<Lit(<<"0">>), NonZeroDigit>>),
               NonZeroDigit>>))
StrpYear4 == Grp(3, Rep(ReDigit, 4, 4))
StrpYear2 == Grp(3, Rep(ReDigit, 2, 2))
\* the month names, the longest first
StrpMonthName ==
  Grp(2, AltLit(<<<<"S", "e", "p", "t", "e", "m", "b", "e", "r">>, <<"F",
      "e", "b", "r", "u", "a", "r", "y">>, <<"N", "o", "v", "e", "m", "b",
      "e", "r">>, <<"D", "e", "c", "e", "m", "b", "e", "r">>,
                  <<"J", "a", "n", "u", "a", "r", "y">>, <<"O", "c", "t",
                      "o", "b", "e", "r">>, <<"A", "u", "g", "u", "s", "t">>,
                      <<"M", "a", "r", "c", "h">>, <<"A", "p", "r", "i",
                      "l">>,
                  <<"J", "u", "n", "e">>, <<"J", "u", "l", "y">>, <<"M", "a",
                      "y">>>>))
MonthAbbreviations ==
  <<<<"J", "a", "n">>, <<"F", "e", "b">>, <<"M", "a", "r">>, <<"A", "p",
      "r">>, <<"M", "a", "y">>, <<"J", "u", "n">>, <<"J", "u", "l">>, <<"A",
      "u", "g">>,
    <<"S", "e", "p">>, <<"O", "c", "t">>, <<"N", "o", "v">>, <<"D", "e",
        "c">>>>
StrpMonthAbbr == Grp(2, AltLit(MonthAbbreviations))

\* the formats list of _parse_date: <<regular expression, month names>>,
\* month names <<>> for a numeric month
formats ==
  << <<Cat(<<StrpDay, Lit(<<".">>), StrpMonth, Lit(<<".">>), StrpYear4>>),
      <<>> >>,
     <<Cat(<<StrpDay, Lit(<<"/">>), StrpMonth, Lit(<<"/">>), StrpYear4>>),
         <<>> >>,
     <<Cat(<<StrpDay, Lit(<<"-">>), StrpMonth, Lit(<<"-">>), StrpYear4>>),
         <<>> >>,
     <<Cat(<<StrpDay, Lit(<<".">>), StrpMonth, Lit(<<".">>), StrpYear2>>),
         <<>> >>,
     <<Cat(<<StrpDay, Lit(<<"/">>), StrpMonth, Lit(<<"/">>), StrpYear2>>),
         <<>> >>,
     <<Cat(<<StrpDay, Lit(<<"-">>), StrpMonth, Lit(<<"-">>), StrpYear2>>),
         <<>> >>,
     <<Cat(<<StrpDay, Spaces1, StrpMonthName, Spaces1, StrpYear4>>),
       MonthNames>>,
     <<Cat(<<StrpDay, Spaces1, StrpMonthAbbr, Spaces1, StrpYear4>>),
       MonthAbbreviations>>,
     <<Cat(<<StrpMonthName, Spaces1, StrpDay, Lit(<<",">>), Spaces1,
         StrpYear4>>),
       MonthNames>>,
     <<Cat(<<StrpMonthAbbr, Spaces1, StrpDay, Lit(<<",">>), Spaces1,
         StrpYear4>>),
       MonthAbbreviations>> >>

DigitSeq == <<"0", "1", "2", "3", "4", "5", "6", "7", "8", "9">>
DigitVal(c) == (CHOOSE n \in DOMAIN DigitSeq : DigitSeq[n] = c) - 1
\* int(digits)
RECURSIVE ToInt(_)
ToInt(digits) ==
  IF digits = <<>> THEN 0
  ELSE 10 * ToInt(SubSeq(digits, 1,
      Len(digits) - 1)) + DigitVal(digits[Len(digits)])

\* the days of a month of the calendar datetime uses
IsLeap(year) == year % 4 = 0 /\ (year % 100 # 0 \/ year % 400 = 0)
DaysIn(year, month) ==
  IF month = 2 THEN (IF IsLeap(year) THEN 29 ELSE 28)
  ELSE IF month \in {4, 6, 9, 11} THEN 30 ELSE 31

\* datetime.strptime(s, fmt) for entry n of formats: the date as
\* year * 10000 + month * 100 + day, or None where strptime raises: the
\* format must match all of s, and the date must exist
Strptime(s, n) ==
  With(formats[n], LAMBDA format :
  With(MatchAt(format[1], s, 1, IgnoreCase), LAMBDA m :
    IF m = NoMatch \/ m[1] # Len(s) + 1 THEN None
    ELSE
      LET names == format[2]
          g(k) == Slice(s, m[2][k][1], m[2][k][2])
      IN  With(ToInt(Strip(g(1))), LAMBDA day :
          With(IF names = <<>> THEN ToInt(g(2))
               ELSE CHOOSE k \in DOMAIN names :
                      StrLower(names[k]) = StrLower(g(2)), LAMBDA month :
          With(ToInt(g(3)), LAMBDA digits :
          \* %y: 69 to 99 are 1969 to 1999, 0 to 68 are 2000 to 2068
          With(IF m[2][3][2] - m[2][3][1] = 4 THEN digits
               ELSE IF digits >= 69 THEN 1900 + digits ELSE 2000 + digits,
               LAMBDA year :
            IF year < 1 \/ day > DaysIn(year, month) THEN None
            ELSE [date |-> year * 10000 + month * 100 + day]))))))

\* the for loop of _parse_date returns what the first format that parses
\* gives
_parse_date(date_str) ==
  With(StrReplace(date_str, <<",">>, <<>>), LAMBDA s :
  With(<<>> \o [n \in DOMAIN formats |-> Strptime(s, n)], LAMBDA parsed :
  With(FirstTrue([n \in DOMAIN parsed |-> parsed[n] # None]), LAMBDA n :
    IF n = 0 THEN None ELSE parsed[n])))

_extract_dates_multiple(text) ==
  With(Flatten([p \in DOMAIN date_patterns |->
                  FindAll(date_patterns[p], text, IgnoreCase)]),
       LAMBDA dates_found :
  With(<<>> \o [k \in DOMAIN dates_found |-> _parse_date(dates_found[k])],
       LAMBDA parsed :
  With({k \in DOMAIN dates_found : parsed[k] # None}, LAMBDA ok :
    IF dates_found = <<>> \/ ok = {} THEN None
    ELSE
      \* the stable sort by date: its last and its first entry
      LET latest ==
            MaxOf({k \in ok : \A j \in ok : parsed[j].date <= parsed[k].date})
          earliest ==
            MinOf({k \in ok : \A j \in ok : parsed[j].date >= parsed[k].date})
      IN  [judgment_date |-> dates_found[latest],
           filing_date |-> IF Cardinality(ok) > 1 THEN dates_found[earliest]
                           ELSE <<>>,
           confidence |-> Fl(IF Cardinality(ok) >= 2 THEN 8 ELSE 6)])))

\* the minimum reasonable name length of _extract_judge_enhanced
MinJudgeNameLen == 3

_extract_judge_enhanced(text) ==
  LET clean_name(judge) ==
        Strip(CollapseSpace(ReSub(JudgeTitleRe, <<>>, judge, IgnoreCase)))
  IN  With(Flatten([p \in DOMAIN judge_patterns |->
                      StripAll(FindAllGroup(judge_patterns[p], text,
                                            IgnoreCaseMultiline))]),
           LAMBDA judges_found :
      With(SelectSeq(<<>> \o [k \in DOMAIN judges_found |->
                                clean_name(judges_found[k])],
                     LAMBDA name : Len(name) > MinJudgeNameLen),
           LAMBDA cleaned_judges :
      With(Cardinality({cleaned_judges[k] : k \in DOMAIN cleaned_judges}),
           LAMBDA bench_strength :
        IF judges_found = <<>> \/ cleaned_judges = <<>> THEN None
        ELSE
          \* max(cleaned_judges, key=len): the first of the longest
          LET best == MinOf({k \in DOMAIN cleaned_judges :
                               \A j \in DOMAIN cleaned_judges :
                                  Len(cleaned_judges[j]) <= Len(cleaned_judges[k])})
          IN  [name |-> cleaned_judges[best],
               bench_strength |-> bench_strength,
               confidence |-> Fl(IF bench_strength = 1 THEN 8 ELSE 9)])))

\* the patterns in the order the two for loops of _identify_court_type try
\* them, each with its court type; the loops return at the first that matches
CourtPatternList ==
  Flatten([t \in DOMAIN court_patterns |->
             [p \in DOMAIN court_patterns[t][2] |->
                [type |-> court_patterns[t][1],
                 pattern |-> court_patterns[t][2][p]]]])

\* _identify_court_type that goes by the last pattern that matches
_identify_court_type_LastMatch(text) ==
  With(<<>> \o [k \in DOMAIN CourtPatternList |->
                 ReSearch(CourtPatternList[k].pattern, text, IgnoreCase)],
       LAMBDA found :
  With({k \in DOMAIN found : found[k] # NoMatch}, LAMBDA hits :
    IF hits = {}
    THEN [type |-> "district", name |-> DefaultCourtName, confidence |-> Fl(3)]
    ELSE [type |-> CourtPatternList[MaxOf(hits)].type,
          name |-> Group0(text, found[MaxOf(hits)]),
          confidence |-> Fl(9)]))

_identify_court_type(text) ==
  With(<<>> \o [k \in DOMAIN CourtPatternList |->
                 ReSearch(CourtPatternList[k].pattern, text, IgnoreCase)],
       LAMBDA found :
  With(FirstTrue([k \in DOMAIN found |-> found[k] # NoMatch]), LAMBDA k :
    IF k = 0
    THEN [type |-> "district", name |-> DefaultCourtName, confidence |-> Fl(3)]
    ELSE With(ReSearch(CourtNameRe(CourtPatternList[k].pattern), text,
                       IgnoreCase), LAMBDA court_match :
           [type |-> CourtPatternList[k].type,
            name |-> IF court_match # NoMatch
                     THEN Strip(GroupN(text, court_match, 1))
                     ELSE Group0(text, found[k]),
            confidence |-> Fl(9)])))

\* the for loop over the counsel patterns from pattern n on
RECURSIVE CounselFrom(_, _, _)
CounselFrom(present_text, n, counsel_info) ==
  IF n > Len(counsel_patterns) THEN counsel_info
  ELSE
    With(FindAllGroup(counsel_patterns[n], present_text, IgnoreCase),
         LAMBDA matches :
    With(IF matches = <<>> THEN counsel_info
         ELSE IF counsel_info.petitioner = <<>>
              THEN [counsel_info EXCEPT !.petitioner = Strip(matches[1])]
         ELSE IF counsel_info.respondent = <<>> /\ Len(matches) > 1
              THEN [counsel_info EXCEPT !.respondent = Strip(matches[2])]
         ELSE counsel_info, LAMBDA next :
      CounselFrom(present_text, n + 1, next)))

_extract_counsel_info(text) ==
  LET counsel_info == [petitioner |-> <<>>, respondent |-> <<>>]
  IN  With(ReSearch(PresentSectionRe, text, IgnoreCase), LAMBDA present_section :
        IF present_section = NoMatch THEN counsel_info
        ELSE CounselFrom(GroupN(text, present_section, 1), 1, counsel_info))

\* the for loop over case_types returns at the first key in the case number
_determine_case_type(case_number, text) ==
  IF case_number = <<>> THEN UnknownCaseType
  ELSE With(StrUpper(case_number), LAMBDA upper :
       With(FirstTrue([n \in DOMAIN case_types |->
                         Contains(upper, case_types[n][1])]), LAMBDA n :
         IF n = 0 THEN CivilCaseType ELSE case_types[n][2]))

\* _extract_subject_matter without its last line: the empty string where no
\* subject has a keyword in the text
_extract_subject_matter_NoDefault(text) ==
  With(StrLower(text), LAMBDA text_lower :
  With(FirstTrue([n \in DOMAIN subjects |->
                    ContainsAny(text_lower, subjects[n][2])]), LAMBDA n :
    IF n = 0 THEN <<>>
    ELSE StrTitle(StrReplace(subjects[n][1], <<"_">>, <<" ">>))))

\* the for loop over subjects returns at the first subject one of whose
\* keywords is in the text
_extract_subject_matter(text) ==
  With(StrLower(text), LAMBDA text_lower :
  With(FirstTrue([n \in DOMAIN subjects |->
                    ContainsAny(text_lower, subjects[n][2])]), LAMBDA n :
    IF n = 0 THEN GeneralSubject
    ELSE StrTitle(StrReplace(subjects[n][1], <<"_">>, <<" ">>))))

\* JudgmentMetadata(): the defaults of the dataclass
JudgmentMetadata ==
  [case_number |-> <<>>, case_year |-> <<>>,
   parties_petitioner |-> <<>>, parties_respondent |-> <<>>,
   date_of_judgment |-> <<>>, date_of_filing |-> <<>>,
   judge_name |-> <<>>, court_name |-> <<>>, court_type |-> "district",
   case_type |-> <<>>, subject_matter |-> <<>>, bench_strength |-> 1,
   counsel_petitioner |-> <<>>, counsel_respondent |-> <<>>]

\* the steps of smart_parse_judgment_structure, each on the metadata and
\* the confidence_scores (the dict, as the list of its <<key, value>> in the
\* order of insertion) so far
Parsed(metadata, confidence_scores) ==
  [metadata |-> metadata, confidence_scores |-> confidence_scores]

ParseCaseNumber(cleaned_text, metadata, confidence_scores) ==
  With(_extract_with_confidence(cleaned_text, case_number_patterns,
                                "case_number"), LAMBDA found :
  With(ReSearch(YearRe, found.match, NoFlags), LAMBDA year_match :
    LET case_number == found.match
        year == GroupN(case_number, year_match, 1)
    IN  IF case_number = <<>> THEN Parsed(metadata, confidence_scores)
        ELSE Parsed([metadata EXCEPT
                       !.case_number = case_number,
                       !.case_year = IF year_match = NoMatch THEN @
                                     ELSE IF Len(year) = 2
                                     THEN <<"2", "0">> \o year
                                     ELSE year],
                    Append(confidence_scores,
                           <<"case_number", found.confidence>>))))

ParseParties(cleaned_text, metadata, confidence_scores) ==
  With(_extract_parties_enhanced(cleaned_text), LAMBDA parties_result :
    IF parties_result = None THEN Parsed(metadata, confidence_scores)
    ELSE Parsed([metadata EXCEPT
                   !.parties_petitioner = parties_result.petitioner,
                   !.parties_respondent = parties_result.respondent],
                Append(confidence_scores,
                       <<"parties", parties_result.confidence>>)))

ParseDates(cleaned_text, metadata, confidence_scores) ==
  With(_extract_dates_multiple(cleaned_text), LAMBDA dates :
    IF dates = None THEN Parsed(metadata, confidence_scores)
    ELSE Parsed([metadata EXCEPT
                   !.date_of_judgment = dates.judgment_date,
                   !.date_of_filing = dates.filing_date],
                Append(confidence_scores, <<"dates", dates.confidence>>)))

ParseJudge(cleaned_text, metadata, confidence_scores) ==
  With(_extract_judge_enhanced(cleaned_text), LAMBDA judge_info :
    IF judge_info = None THEN Parsed(metadata, confidence_scores)
    ELSE Parsed([metadata EXCEPT
                   !.judge_name = judge_info.name,
                   !.bench_strength = judge_info.bench_strength],
                Append(confidence_scores, <<"judge", judge_info.confidence>>)))

ParseCourt(cleaned_text, metadata, confidence_scores) ==
  With(_identify_court_type(cleaned_text), LAMBDA court_info :
    Parsed([metadata EXCEPT !.court_type = court_info.type,
                            !.court_name = court_info.name],
           Append(confidence_scores, <<"court", court_info.confidence>>)))

ParseCounsel(cleaned_text, metadata) ==
  With(_extract_counsel_info(cleaned_text), LAMBDA counsel_info :
    [metadata EXCEPT !.counsel_petitioner = counsel_info.petitioner,
                     !.counsel_respondent = counsel_info.respondent])

\* sum(confidence_scores.values()), from 0 in the order of insertion
RECURSIVE FloatSum(_)
FloatSum(confidence_scores) ==
  IF confidence_scores = <<>> THEN FZero
  ELSE FloatAdd(FloatSum(SubSeq(confidence_scores, 1,
      Len(confidence_scores) - 1)),
                confidence_scores[Len(confidence_scores)][2])
\* OverallConfidence without the division by len(confidence_scores)
OverallConfidence_Sum(confidence_scores) == FloatSum(confidence_scores)

\* sum(confidence_scores.values()) / len(confidence_scores) if
\* confidence_scores else 0.0
OverallConfidence(confidence_scores) ==
  IF confidence_scores = <<>> THEN FZero
  ELSE FloatDiv(FloatSum(confidence_scores), Len(confidence_scores))

ParseTypeAndSubject(cleaned_text, so_far) ==
  With(so_far, LAMBDA metadata :
    [metadata EXCEPT
       !.case_type = _determine_case_type(metadata.case_number, cleaned_text),
       !.subject_matter = _extract_subject_matter(cleaned_text)])

\* smart_parse_judgment_structure(text): the metadata it returns and the
\* confidence_score it leaves in self
smart_parse_judgment_structure(text) ==
  With(_clean_text(text), LAMBDA cleaned_text :
  With(ParseCaseNumber(cleaned_text, JudgmentMetadata, <<>>), LAMBDA s1 :
  With(ParseParties(cleaned_text, s1.metadata, s1.confidence_scores), LAMBDA s2 :
  With(ParseDates(cleaned_text, s2.metadata, s2.confidence_scores), LAMBDA s3 :
  With(ParseJudge(cleaned_text, s3.metadata, s3.confidence_scores), LAMBDA s4 :
  With(ParseCourt(cleaned_text, s4.metadata, s4.confidence_scores), LAMBDA s5 :
    [metadata |-> ParseTypeAndSubject(cleaned_text,
                                      ParseCounsel(cleaned_text, s5.metadata)),
     confidence_score |-> OverallConfidence(s5.confidence_scores)]))))))

(***************************************************************************)
(* Text extraction.  A PDF file is what the two libraries make of it:      *)
(* whether pdfplumber.open and PyPDF2.PdfReader raise, and per page the    *)
(* outcome of each call the code makes on it.  An outcome is a returned    *)
(* value, a returned None or a raised exception.                           *)
(***************************************************************************)
Returns(value) == [kind |-> "return", value |-> value]
ReturnsNone == [kind |-> "none"]
Raises(error) == [kind |-> "raise", error |-> error]
Opens == [kind |-> "open"]

\* NonBlank without the test of text.strip(): a text of white space passes
NonBlank_AnyText(outcome) == outcome.kind = "return" /\ outcome.value # <<>>

\* text and text.strip() of an outcome that did not raise
NonBlank(outcome) == outcome.kind = "return" /\ Strip(outcome.value) # <<>>

\* str(n) of an int n >= 0
RECURSIVE Decimal(_)
Decimal(n) ==
  IF n < 10 THEN <<DigitSeq[n + 1]>>
  ELSE Decimal(n \div 10) \o <<DigitSeq[(n % 10) + 1]>>

\* f"\n--- PAGE {page_num + 1} ---\n" and page_text + "\n", for the page of
\* 1-based index n
PageBlock(n, page_text) ==
  <<"\n", "-", "-", "-", " ", "P", "A", "G", "E",
      " ">> \o Decimal(n) \o <<" ", "-", "-", "-",
      "\n">> \o page_text \o <<"\n">>

\* round(word['top'], 1): top is counted in hundredths, the result in
\* tenths; no top of the sample pages lies half way between two tenths
RoundTop(top) == (top + 5) \div 10

\* sorted(items, key=...): stable, ascending; key is the list of the keys
SortedBy(items, key) ==
  LET rank(i) == Cardinality({j \in DOMAIN items :
                                key[j] < key[i] \/ (key[j] = key[i] /\ j <= i)})
  IN  [r \in DOMAIN items |-> items[CHOOSE i \in DOMAIN items : rank(i) = r]]

\* sorted(keys, reverse=True) of a set of numbers
SortedReverse(keys) ==
  [r \in 1..Cardinality(keys) |->
     CHOOSE y \in keys : Cardinality({z \in keys : z >= y}) = r]

\* ' '.join(parts)
RECURSIVE JoinSpace(_)
JoinSpace(parts) ==
  IF parts = <<>> THEN <<>>
  ELSE IF Len(parts) = 1 THEN parts[1]
  ELSE parts[1] \o <<" ">> \o JoinSpace(Tail(parts))

\* the text reconstructed from the words of a page: the words grouped by
\* round(top, 1) into lines, the lines sorted by that key in reverse, the
\* words of a line by x0
ReconstructedText(words) ==
  LET ys == SortedReverse({RoundTop(words[i].top) : i \in DOMAIN words})
      line_words(y) ==
        LET on_line == SelectSeq(words, LAMBDA w : RoundTop(w.top) = y)
        IN  SortedBy(on_line, [i \in DOMAIN on_line |-> on_line[i].x0])
      line_text(y) ==
        JoinSpace([i \in DOMAIN line_words(y) |-> line_words(y)[i].text])
  IN  Join([k \in DOMAIN ys |-> line_text(ys[k])], "\n")

\* the for loop over the strategies from strategy i on, then the words
RECURSIVE StrategiesFrom(_, _)
StrategiesFrom(page, i) ==
  IF i <= Len(page.strategies)
  THEN IF NonBlank(page.strategies[i]) THEN page.strategies[i].value
       ELSE StrategiesFrom(page, i + 1)
  ELSE IF page.words.kind = "return" /\ page.words.value # <<>>
       THEN ReconstructedText(page.words.value)
       ELSE <<>>
_extract_page_text_multiple_strategies(page) == StrategiesFrom(page, 1)

\* what an extraction returns: the text and the processing_errors it leaves
Extracted(text, processing_errors) ==
  [text |-> text, processing_errors |-> processing_errors]
\* the entries of processing_errors
PageError(n, error) == [source |-> "Page", page |-> n, error |-> error]
MethodError(method, error) == [source |-> method, page |-> 0, error |-> error]

\* the page loop of extract_text_pdfplumber from page n on
RECURSIVE PlumberPagesFrom(_, _, _, _)
PlumberPagesFrom(pages, n, text, processing_errors) ==
  IF n > Len(pages) THEN Extracted(text, processing_errors)
  ELSE LET page_text == _extract_page_text_multiple_strategies(pages[n])
       IN  PlumberPagesFrom(pages, n + 1,
                            IF Strip(page_text) # <<>>
                            THEN text \o PageBlock(n, page_text) ELSE text,
                            processing_errors)

extract_text_pdfplumber(pdf_file, processing_errors) ==
  IF pdf_file.pdfplumber.kind = "raise"
  THEN Extracted(<<>>, Append(processing_errors,
                              MethodError("PDFPlumber",
                                  pdf_file.pdfplumber.error)))
  ELSE PlumberPagesFrom(pdf_file.pages, 1, <<>>, processing_errors)

\* the page loop of extract_text_pypdf2 from page n on
RECURSIVE PyPdfPagesFrom(_, _, _, _)
PyPdfPagesFrom(pages, n, text, processing_errors) ==
  IF n > Len(pages) THEN Extracted(text, processing_errors)
  ELSE LET page_text == pages[n].pypdf2
       IN  IF page_text.kind = "raise"
           THEN PyPdfPagesFrom(pages, n + 1, text,
                               Append(processing_errors,
                                      PageError(n, page_text.error)))
           ELSE PyPdfPagesFrom(pages, n + 1,
                               IF NonBlank(page_text)
                               THEN text \o PageBlock(n, page_text.value)
                               ELSE text,
                               processing_errors)

extract_text_pypdf2(pdf_file, processing_errors) ==
  IF pdf_file.pypdf2.kind = "raise"
  THEN Extracted(<<>>, Append(processing_errors,
                              MethodError("PyPDF2", pdf_file.pypdf2.error)))
  ELSE PyPdfPagesFrom(pdf_file.pages, 1, <<>>, processing_errors)

\* the extraction process_judgment_enhanced runs for a method name
ExtractWith(method, pdf_file, processing_errors) ==
  IF method = "pdfplumber" THEN extract_text_pdfplumber(pdf_file,
      processing_errors)
  ELSE extract_text_pypdf2(pdf_file, processing_errors)
\* OtherMethod that gives the selected method again
OtherMethod_Same(method) == method

\* fallback_method
OtherMethod(method) == IF method = "pdfplumber" THEN "pypdf2" ELSE "pdfplumber"

(***************************************************************************)
(* generate_enhanced_html and the results of process_judgment_enhanced     *)
(***************************************************************************)
\* CourtType(...).value of the court types, which the model names by these
\* values
CourtTypeValue ==
  [district |-> <<"d", "i", "s", "t", "r", "i", "c", "t">>, high |-> <<"h",
      "i", "g", "h">>, supreme |-> <<"s", "u", "p", "r", "e", "m", "e">>,
   tribunal |-> <<"t", "r", "i", "b", "u", "n", "a", "l">>,
       magistrate |-> <<"m", "a", "g", "i", "s", "t", "r", "a", "t", "e">>]

\* value or fallback
OrElse(value, fallback) == IF value # <<>> THEN value ELSE fallback

ConfidenceClass(confidence_score) ==
  IF FloatLess(Fl(8), confidence_score) THEN "confidence-high"
  ELSE IF FloatLess(Fl(5), confidence_score) THEN "confidence-medium"
  ELSE "confidence-low"

\* the page generate_enhanced_html returns, as the record of the parts that
\* the f-string fills in; the style sheet and the markup are fixed text
generate_enhanced_html(text, metadata, confidence_score, processing_errors, now) ==
  [title |-> OrElse(metadata.case_number, <<"U", "n", "k", "n", "o", "w",
      "n", " ", "C", "a", "s", "e">>),
   confidence_class |-> ConfidenceClass(confidence_score),
   confidence_text |-> PerMille(confidence_score),
   case_number |-> OrElse(metadata.case_number, <<"C", "a", "s", "e", " ",
       "N", "u", "m", "b", "e", "r", " ", "N", "o", "t", " ", "I", "d", "e",
       "n", "t", "i", "f", "i", "e", "d">>),
   petitioner |-> OrElse(metadata.parties_petitioner, <<"P", "e", "t", "i",
       "t", "i", "o", "n", "e", "r", " ", "N", "o", "t", " ", "I", "d", "e",
       "n", "t", "i", "f", "i", "e", "d">>),
   respondent |-> OrElse(metadata.parties_respondent, <<"R", "e", "s", "p",
       "o", "n", "d", "e", "n", "t", " ", "N", "o", "t", " ", "I", "d", "e",
       "n", "t", "i", "f", "i", "e", "d">>),
   date |-> OrElse(metadata.date_of_judgment, <<"D", "a", "t", "e", " ", "N",
       "o", "t", " ", "I", "d", "e", "n", "t", "i", "f", "i", "e", "d">>),
   court |-> metadata.court_name,
   court_type |-> StrTitle(CourtTypeValue[metadata.court_type]),
   case_type |-> metadata.case_type,
   subject_matter |-> metadata.subject_matter,
   judge |-> OrElse(metadata.judge_name, <<"N", "o", "t", " ", "I", "d", "e",
       "n", "t", "i", "f", "i", "e", "d">>),
   bench_strength |-> metadata.bench_strength,
   year |-> metadata.case_year,
   content |-> FormatLines(text),
   signature |-> OrElse(metadata.judge_name, <<"J", "u", "d", "g", "e", " ",
       "N", "a", "m", "e", " ", "N", "o", "t", " ", "I", "d", "e", "n", "t",
       "i", "f", "i", "e", "d">>),
   court_date |-> metadata.date_of_judgment,
   confidence_score |-> PerMille(confidence_score),
   errors |-> Len(processing_errors),
   generated |-> now]

\* the least number of characters, after strip(), of a sufficient text
MinTextLength == 100
\* Insufficient without the test "not self.extracted_text": an empty text
\* passes
Insufficient_LengthOnly(extracted_text) ==
  extracted_text # <<>> /\ Len(Strip(extracted_text)) < MinTextLength

\* Insufficient with the limit at half of MinTextLength
Insufficient_HalfLength(extracted_text) ==
  extracted_text = <<>> \/ 2 * Len(Strip(extracted_text)) < MinTextLength

\* not self.extracted_text or len(self.extracted_text.strip()) < 100
Insufficient(extracted_text) ==
  extracted_text = <<>> \/ Len(Strip(extracted_text)) < MinTextLength

\* the pairs process_judgment_enhanced returns; a message is kept as the
\* parts its f-string is made of
InsufficientResult ==
  [success |-> FALSE,
   message |-> <<"F", "a", "i", "l", "e", "d", " ", "t", "o", " ", "e", "x",
       "t", "r", "a", "c", "t", " ", "s", "u", "f", "f", "i", "c", "i", "e",
       "n", "t", " ", "t", "e", "x", "t", " ", "f", "r", "o", "m", " ", "P",
       "D", "F", " ", "u", "s", "i", "n", "g", " ", "b", "o", "t", "h", " ",
       "m", "e", "t", "h", "o", "d", "s">>]
SuccessResult(confidence_score, processing_errors) ==
  [success |-> TRUE,
   message |-> <<"P", "r", "o", "c", "e", "s", "s", "i", "n", "g", " ", "c",
       "o", "m", "p", "l", "e", "t", "e", "d", " ", "s", "u", "c", "c", "e",
       "s", "s", "f", "u", "l", "l", "y", " ", "(", "C", "o", "n", "f", "i",
       "d", "e", "n", "c", "e", ":", " ">>,
   confidence |-> PerMille(confidence_score),
   warnings |-> Len(processing_errors)]
ErrorResult(error) ==
  [success |-> FALSE, message |-> <<"E", "r", "r", "o", "r", " ", "p", "r",
      "o", "c", "e", "s", "s", "i", "n", "g", " ", "j", "u", "d", "g", "m",
      "e", "n", "t", ":", " ">>, error |-> error]
\* CriticalError with the entry written as a warning of the extraction
CriticalError_AsWarning(error) ==
  [source |-> "Warning", page |-> 0, error |-> error]

CriticalError(error) == [source |-> "Critical error", page |-> 0,
    error |-> error]

(***************************************************************************)
(* The texts preserve_enhanced_numbering is applied to                     *)
(***************************************************************************)
\* "(i) First point"
L_RomanFirst ==
  <<"(", "i", ")", " ", "F", "i", "r", "s", "t", " ", "p", "o", "i", "n",
    "t">>
\* "continues here"
L_Continues ==
  <<"c", "o", "n", "t", "i", "n", "u", "e", "s", " ", "h", "e", "r", "e">>
\* "(ii) Second point"
L_RomanSecond ==
  <<"(", "i", "i", ")", " ", "S", "e", "c", "o", "n", "d", " ", "p", "o",
    "i", "n", "t">>
\* "inter-"
L_Inter ==
  <<"i", "n", "t", "e", "r", "-">>
\* "national law"
L_National ==
  <<"n", "a", "t", "i", "o", "n", "a", "l", " ", "l", "a", "w">>
\* "This is a complete sentence."
L_Sentence ==
  <<"T", "h", "i", "s", " ", "i", "s", " ", "a", " ", "c", "o", "m", "p",
    "l", "e", "t", "e", " ", "s", "e", "n", "t", "e", "n", "c", "e", ".">>
\* "This Starts A New One."
L_NewSentence ==
  <<"T", "h", "i", "s", " ", "S", "t", "a", "r", "t", "s", " ", "A", " ",
    "N", "e", "w", " ", "O", "n", "e", ".">>
\* "  "
L_Blank ==
  <<" ", " ">>
\* "--- PAGE 1 ---"
L_Page ==
  <<"-", "-", "-", " ", "P", "A", "G", "E", " ", "1", " ", "-", "-", "-">>
\* "1. HDB LTD VS THE SCHOOL"
L_NumParties ==
  <<"1", ".", " ", "H", "D", "B", " ", "L", "T", "D", " ", "V", "S", " ",
    "T", "H", "E", " ", "S", "C", "H", "O", "O", "L">>
\* "I. BRIEF FACTS OF THE CASE"
L_NumCaps ==
  <<"I", ".", " ", "B", "R", "I", "E", "F", " ", "F", "A", "C", "T", "S",
    " ", "O", "F", " ", "T", "H", "E", " ", "C", "A", "S", "E">>
\* ""
L_Empty == <<>>

\* the lines every text of up to MaxLines lines is made of
CoreLines ==
  {L_RomanFirst, L_RomanSecond, L_Inter, L_National, L_Sentence, L_Empty}

\* a header: a numbered party line, a numbered all-caps line, a blank line
\* and a page marker
T_Header == Join(<<L_NumParties, L_NumCaps, L_Blank, L_Page>>, "\n")
\* a numbered point whose text runs on into a second line
T_Continuation == Join(<<L_RomanFirst, L_Continues, L_RomanSecond>>, "\n")
\* two sentences, one a line
T_Sentences == Join(<<L_Sentence, L_NewSentence>>, "\n")

\* ""
M_None ==
  <<>>
\* "(i) "
M_RomanI ==
  <<"(", "i", ")", " ">>
\* "(iv) "
M_RomanIV ==
  <<"(", "i", "v", ")", " ">>
\* "(a) "
M_LetterA ==
  <<"(", "a", ")", " ">>
\* "(1) "
M_Paren1 ==
  <<"(", "1", ")", " ">>
\* "12. "
M_Dot1 ==
  <<"1", "2", ".", " ">>
\* "IV. "
M_RomanCap ==
  <<"I", "V", ".", " ">>
\* "A. "
M_CapA ==
  <<"A", ".", " ">>
\* "3) "
M_Simple1 ==
  <<"3", ")", " ">>
\* "(bullet) "
M_Bullet ==
  <<"bullet", " ">>
\* "- "
M_Dash ==
  <<"-", " ">>
\* "  (v) "
M_Indent ==
  <<" ", " ", "(", "v", ")", " ">>

Markers ==
  {M_None, M_RomanI, M_RomanIV, M_LetterA, M_Paren1,
   M_Dot1, M_RomanCap, M_CapA, M_Simple1, M_Bullet,
   M_Dash, M_Indent}

\* "point"
B_Plain ==
  <<"p", "o", "i", "n", "t">>
\* "RAM VS STATE"
B_Vs ==
  <<"R", "A", "M", " ", "V", "S", " ", "S", "T", "A", "T", "E">>
\* "ram v/s state"
B_VSlash ==
  <<"r", "a", "m", " ", "v", "/", "s", " ", "s", "t", "a", "t", "e">>
\* "Ram Versus State"
B_Versus ==
  <<"R", "a", "m", " ", "V", "e", "r", "s", "u", "s", " ", "S", "t", "a",
    "t", "e">>
\* "Present: Sh. Kumar"
B_Present ==
  <<"P", "r", "e", "s", "e", "n", "t", ":", " ", "S", "h", ".", " ", "K",
    "u", "m", "a", "r">>
\* "ORDER: BAIL"
B_Order ==
  <<"O", "R", "D", "E", "R", ":", " ", "B", "A", "I", "L">>
\* "FACTS OF THE CASE"
B_Caps ==
  <<"F", "A", "C", "T", "S", " ", "O", "F", " ", "T", "H", "E", " ", "C",
    "A", "S", "E">>
\* "Facts of the case"
B_Mixed ==
  <<"F", "a", "c", "t", "s", " ", "o", "f", " ", "t", "h", "e", " ", "c",
    "a", "s", "e">>

Bodies ==
  {B_Plain, B_Vs, B_VSlash, B_Versus, B_Present,
   B_Order, B_Caps, B_Mixed}

\* "(i)"
X_BareRoman ==
  <<"(", "i", ")">>
\* "--- PAGE 2 --- A VS B"
X_PageVs ==
  <<"-", "-", "-", " ", "P", "A", "G", "E", " ", "2", " ", "-", "-", "-",
    " ", "A", " ", "V", "S", " ", "B">>
\* "1.No space"
X_NoSpace ==
  <<"1", ".", "N", "o", " ", "s", "p", "a", "c", "e">>
\* "CORAM: JUSTICE RAO"
X_Coram ==
  <<"C", "O", "R", "A", "M", ":", " ", "J", "U", "S", "T", "I", "C", "E",
    " ", "R", "A", "O">>
\* "ORDER"
X_ShortCaps ==
  <<"O", "R", "D", "E", "R">>
\* "JUDGMENT"
X_Judgment ==
  <<"J", "U", "D", "G", "M", "E", "N", "T">>
\* "	(x) tabbed	"
X_Tab ==
  <<"\t", "(", "x", ")", " ", "t", "a", "b", "b", "e", "d", "\t">>

\* a line of 200 characters and more that holds VS after a numbering marker
Filler(n) == [i \in 1..n |-> "x"]
X_LongVs == M_Dot1 \o B_Vs \o <<" ">> \o Filler(CaseHeaderMaxLen)

ExtraLines ==
  {X_BareRoman, X_PageVs, X_NoSpace, X_Coram, X_ShortCaps, X_Judgment, X_Tab,
   X_LongVs, L_Blank, L_Page, L_NumParties, L_NumCaps}

\* every marker before every body, and the extra lines
SingleLines == {m \o b : m \in Markers, b \in Bodies} \cup ExtraLines

\* the longest text of CoreLines, in lines
MaxLines == 3

SeqsUpTo(S, n) == UNION {[1..k -> S] : k \in 0..n}

NumberingTexts ==
  {Join(ls, "\n") : ls \in SeqsUpTo(CoreLines, MaxLines)}
    \cup SingleLines \cup {T_Header, T_Continuation, T_Sentences}

(***************************************************************************)
(* The texts smart_parse_judgment_structure is applied to: up to           *)
(* MaxFragments lines, each one of the fragments                           *)
(***************************************************************************)
F_Nothing == <<"h", "e", "l", "l", "o", " ", "w", "o", "r", "l", "d">>
F_CaseNumber == <<"c", "s", " ", "n", "o", ".", " ", "1", "2", "/", "2", "0">>
F_Parties == <<"R", "a", "m", " ", "V", "S", " ", "S", "h", "y", "a", "m">>
F_Date == <<"1", "3", ".", "0", "2", ".", "2", "0", "2", "0">>
F_Judge == <<"J", "u", "s", "t", "i", "c", "e", " ", "A", " ", "R", "a", "o",
    ",", " ", "J", ".">>
F_Court == <<"H", "i", "g", "h", " ", "C", "o", "u", "r", "t", " ", "l", "o",
    "a", "n">>
Fragments == {F_Nothing, F_CaseNumber, F_Parties, F_Date, F_Judge, F_Court}

\* the longest text of Fragments, in lines
MaxFragments == 2

\* whole documents
\* 'CS No. 12/2020': a case number with a prefix in capitals
D_CaseUpper == <<"C", "S", " ", "N", "o", ".", " ", "1", "2", "/", "2", "0",
    "2", "0">>
\* twenty-one lines 'x' and the line 'cs no. 12/20': a case number after
\* the first twenty non-empty lines
D_LateCaseNumber ==
  Join(<<>> \o [k \in 1..21 |-> <<"x">>] \o <<F_CaseNumber>>, "\n")
\* a date inside a sentence, on a line of sixty characters
D_LongDateLine == <<"T", "h", "e", " ", "l", "o", "a", "n", " ", "w", "a",
    "s", " ", "g", "i", "v", "e", "n", " ", "o", "n", " ", "1", "3", ".",
    "0", "2", ".", "2", "0", "2", "0", " ", "a", "n", "d", " ", "i", "t",
    " ", "i", "s", " ", "d", "u", "e", " ", "s", "i", "n", "c", "e", " ",
    "t", "h", "e", "n", " ", "o", "k">>
\* a Present line that names counsel, and the line after it
D_Present == <<"P", "r", "e", "s", "e", "n", "t", ":", " ", "S", "h", ".",
    " ", "A", "m", "i", "t", " ", "R", "a", "o", ",", " ", "A", "d", "v",
    "o", "c", "a", "t", "e", "\n", "H", "e", "a", "r", "d", " ", "t", "h",
    "e", " ", "c", "o", "u", "n", "s", "e", "l">>
\* a parties line between a case number line and a date line
D_PartiesLine == <<"c", "s", " ", "n", "o", ".", " ", "1", "2", "/", "2",
    "0", "\n", "R", "a", "m", " ", "K", "u", "m", "a", "r", " ", "v", "s",
    " ", "S", "h", "y", "a", "m", " ", "L", "a", "l", "\n", "D", "a", "t",
    "e", "d", ":", " ", "1", "3", ".", "0", "2", ".", "2", "0", "2", "0">>
\* the ten lines of the sample judgment
S_CaseNumber == <<"O", "M", "P", " ", "(", "I", ")", " ", "C", "o", "m", "m",
    ".", " ", "N", "o", ".", " ", "8", "0", "0", "/", "2", "0">>
S_Parties == <<"H", "D", "B", " ", "F", "I", "N", "A", "N", "C", "I", "A",
    "L", " ", "S", "E", "R", "V", "I", "C", "E", "S", " ", "L", "T", "D",
    " ", "V", "S", " ", "T", "H", "E", " ", "D", "E", "O", "B", "A", "N",
    "D", " ", "P", "U", "B", "L", "I", "C", " ", "S", "C", "H", "O", "O",
    "L">>
S_Date == <<"1", "3", ".", "0", "2", ".", "2", "0", "2", "0">>
S_Present == <<"P", "r", "e", "s", "e", "n", "t", " ", ":", " ", "S", "h",
    ".", " ", "A", "s", "h", "o", "k", " ", "K", "u", "m", "a", "r", " ",
    "L", "d", ".", " ", "C", "o", "u", "n", "s", "e", "l", " ", "f", "o",
    "r", " ", "p", "e", "t", "i", "t", "i", "o", "n", "e", "r", ".">>
S_Petition == <<"T", "h", "i", "s", " ", "i", "s", " ", "a", " ", "p", "e",
    "t", "i", "t", "i", "o", "n", " ", "u", "/", "s", " ", "9", " ", "o",
    "f", " ", "I", "n", "d", "i", "a", "n", " ", "A", "r", "b", "i", "t",
    "r", "a", "t", "i", "o", "n", " ", "a", "n", "d">>
S_Conciliation == <<"C", "o", "n", "c", "i", "l", "i", "a", "t", "i", "o",
    "n", " ", "A", "c", "t", " ", "1", "9", "9", "6", " ", "f", "o", "r",
    " ", "a", "p", "p", "o", "i", "n", "t", "m", "e", "n", "t", " ", "o",
    "f", " ", "r", "e", "c", "e", "i", "v", "e", "r", ".">>
S_Receiver == <<"(", "i", ")", " ", "T", "h", "e", " ", "r", "e", "c", "e",
    "i", "v", "e", "r", " ", "s", "h", "a", "l", "l", " ", "t", "a", "k",
    "e", " ", "o", "v", "e", "r", " ", "t", "h", "e", " ", "p", "o", "s",
    "s", "e", "s", "s", "i", "o", "n">>
S_Vehicle == <<"o", "f", " ", "t", "h", "e", " ", "v", "e", "h", "i", "c",
    "l", "e", " ", "f", "r", "o", "m", " ", "t", "h", "e", " ", "r", "e",
    "s", "p", "o", "n", "d", "e", "n", "t", ".">>
S_JudgeName == <<"V", "I", "N", "A", "Y", " ", "K", "U", "M", "A", "R", " ",
    "K", "H", "A", "N", "N", "A">>
S_DistrictJudge == <<"D", "i", "s", "t", "r", "i", "c", "t", " ", "J", "u",
    "d", "g", "e">>
SampleLines ==
  <<S_CaseNumber, S_Parties, S_Date, S_Present, S_Petition, S_Conciliation,
    S_Receiver, S_Vehicle, S_JudgeName, S_DistrictJudge>>
D_Sample == Join(SampleLines, "\n")

\* "aaaaa case no. 7/19 wp 5/20 wp 5/20 wp 5/20": a case number of the first
\* pattern three times in the later part of the text, one of the second
\* pattern once in its first 30%
D_ScoreTie ==
  <<"a", "a", "a", "a", "a", " ", "c", "a", "s", "e", " ", "n", "o", ".",
    " ", "7", "/", "1", "9", " ", "w", "p", " ", "5", "/", "2", "0", " ",
    "w", "p", " ", "5", "/", "2", "0", " ", "w", "p", " ", "5", "/", "2",
    "0">>

\* "12.01.2019 February 13, 2020": a numeric date and a later date with the
\* month first
D_MonthFirst ==
  <<"1", "2", ".", "0", "1", ".", "2", "0", "1", "9", " ", "F", "e", "b",
    "r", "u", "a", "r", "y", " ", "1", "3", ",", " ", "2", "0", "2", "0">>

\* "High Court order by the District Judge": keywords of two court types,
\* the one of the later type first
D_TwoCourts ==
  <<"H", "i", "g", "h", " ", "C", "o", "u", "r", "t", " ", "o", "r", "d",
    "e", "r", " ", "b", "y", " ", "t", "h", "e", " ", "D", "i", "s", "t",
    "r", "i", "c", "t", " ", "J", "u", "d", "g", "e">>

Documents ==
  {D_CaseUpper, D_LateCaseNumber, D_LongDateLine, D_Present, D_PartiesLine,
   D_Sample, D_ScoreTie, D_MonthFirst, D_TwoCourts}

ParseTexts ==
  {Join(ls, "\n") : ls \in SeqsUpTo(Fragments, MaxFragments)} \cup Documents

(***************************************************************************)
(* The PDF files process_judgment_enhanced is applied to: up to MaxPages   *)
(* pages, each one of the sample pages, and three files that a library     *)
(* cannot open                                                             *)
(***************************************************************************)
PageText_Header == <<"c", "s", " ", "n", "o", ".", " ", "1", "2", "/", "2",
    "0", "\n", "R", "a", "m", " ", "V", "S", " ", "S", "h", "y", "a", "m",
    "\n", "D", "a", "t", "e", "d", ":", " ", "1", "3", ".", "0", "2", ".",
    "2", "0", "2", "0">>
PageText_HeaderFlat == <<"c", "s", " ", "n", "o", ".", " ", "1", "2", "/",
    "2", "0", " ", "R", "a", "m", " ", "V", "S", " ", "S", "h", "y", "a",
    "m", " ", "D", "a", "t", "e", "d", ":", " ", "1", "3", ".", "0", "2",
    ".", "2", "0", "2", "0">>
PageText_Body == <<" ", " ", "J", "u", "s", "t", "i", "c", "e", " ", "A",
    " ", "R", "a", "o", ",", " ", "J", ".", "\n", "(", "i", ")", " ", "T",
    "h", "e", " ", "l", "o", "a", "n", " ", "i", "s", " ", "d", "u", "e",
    ".", "\n", "H", "i", "g", "h", " ", "C", "o", "u", "r", "t">>
PageText_BodyLayout == <<"J", "u", "s", "t", "i", "c", "e", " ", "A", " ",
    "R", "a", "o", ",", " ", "J", ".", " ", "(", "i", ")", " ", "T", "h",
    "e", " ", "l", "o", "a", "n", " ", "i", "s", " ", "d", "u", "e", ".">>

\* a page every call yields text of
Page_Plain ==
  [strategies |-> <<Returns(PageText_Header), Returns(PageText_Header),
                    Returns(PageText_HeaderFlat),
                        Returns(PageText_HeaderFlat)>>,
   words |-> Returns(<<>>),
   pypdf2 |-> Returns(PageText_HeaderFlat)]
\* a page only the layout strategies yield text of; PyPDF2 raises on it
Page_Layout ==
  [strategies |-> <<Raises("cannot decode"), Returns(<<" ", " ", "\n">>),
                    Returns(PageText_Body), Returns(PageText_BodyLayout)>>,
   words |-> Returns(<<>>),
   pypdf2 |-> Raises("cannot decode")]
\* a page that yields words only: two lines of two words, not in reading
\* order; PyPDF2 gives blank text
Page_Words ==
  [strategies |-> <<ReturnsNone, Returns(<<>>), Raises("no layout"),
                    Raises("no layout")>>,
   words |-> Returns(<<[text |-> <<"R", "a", "o">>, top |-> 1004, x0 |-> 130],
                       [text |-> <<"J", "u", "d", "g", "e">>, top |-> 2001,
                           x0 |-> 140],
                       [text |-> <<"J", "u", "s", "t", "i", "c", "e">>,
                           top |-> 996, x0 |-> 72],
                       [text |-> <<"D", "i", "s", "t", "r", "i", "c", "t">>,
                           top |-> 2000, x0 |-> 72]>>),
   pypdf2 |-> Returns(<<" ", "\n">>)]
\* a page without text
Page_Blank ==
  [strategies |-> <<ReturnsNone, ReturnsNone, Returns(<<>>),
      Returns(<<" ">>)>>,
   words |-> Raises("no words"),
   pypdf2 |-> ReturnsNone]

SamplePages == {Page_Plain, Page_Layout, Page_Words, Page_Blank}

\* the most pages of a file
MaxPages == 2

PdfFile(pdfplumber, pypdf2, pages) ==
  [pdfplumber |-> pdfplumber, pypdf2 |-> pypdf2, pages |-> pages]
\* files one of the libraries, or both, cannot open
File_NoPdfPlumber ==
  PdfFile(Raises("not a PDF"), Opens, <<Page_Plain, Page_Plain>>)
File_NoPyPdf ==
  PdfFile(Opens, Raises("EOF marker not found"), <<Page_Plain, Page_Plain>>)
File_Unreadable ==
  PdfFile(Raises("not a PDF"), Raises("EOF marker not found"), <<>>)

PdfFiles ==
  {PdfFile(Opens, Opens, pages) : pages \in SeqsUpTo(SamplePages, MaxPages)}
    \cup {File_NoPdfPlumber, File_NoPyPdf, File_Unreadable}

ExtractionMethods == {"pdfplumber", "pypdf2"}

\* a page every call of either library raises on
Page_Broken ==
  [strategies |-> <<Raises("cannot decode"), Raises("cannot decode"),
                    Raises("no layout"), Raises("no layout")>>,
   words |-> Raises("no words"),
   pypdf2 |-> Raises("cannot decode")]

\* the files extract_text_pdfplumber and extract_text_pypdf2 are applied to
ExtractPages == SamplePages \cup {Page_Broken}
ExtractFiles ==
  {PdfFile(Opens, Opens, pages) : pages \in SeqsUpTo(ExtractPages, MaxPages)}
    \cup {File_NoPdfPlumber, File_NoPyPdf, File_Unreadable}

\* the calls _extract_page_text_multiple_strategies makes on a page, in the
\* order of the code: the four strategies, then page.extract_words()
StrategyCount == 4
PageCalls ==
  <<"extract_text()", "extract_text(x_tolerance=3, y_tolerance=3)",
    "extract_text(layout=True)",
    "extract_text(layout=True, x_tolerance=1, y_tolerance=1)",
    "extract_words()">>

\* what datetime.now() can give
Clock == {"12:00:00", "12:00:01"}

\* the exceptions a step of process_judgment_enhanced outside the
\* extractors can raise
StepErrors == {"MemoryError"}

(***************************************************************************)
(* State                                                                   *)
(***************************************************************************)
VARIABLES
  \* preserve_enhanced_numbering(text): its argument, its locals lines and
  \* formatted_lines, the number of lines the loop has consumed, where the
  \* call stands and what it returned
  num_text, num_lines, num_i, formatted_lines, num_pc, num_result,
  \* the fields of the extractor
  extracted_text, formatted_html, judgment_metadata, confidence_score,
  processing_errors,
  \* smart_parse_judgment_structure(text): its argument, its locals
  \* cleaned_text, metadata and confidence_scores, where the call stands and
  \* what it returned
  parse_text, cleaned_text, metadata, confidence_scores, parse_pc, parse_result,
  \* process_judgment_enhanced(pdf_file, extraction_method): its arguments,
  \* where the call stands, the extraction methods it has run and what it
  \* returned
  pdf_file, extraction_method, pipe_pc, attempts, pipe_result,
  \* the pairs the earlier calls of process_judgment_enhanced on this
  \* extractor returned, in the order of the calls
  earlier_results,
  \* extract_text_pdfplumber(pdf_file) or extract_text_pypdf2(pdf_file),
  \* called on the extractor: which of the two, its argument, where the call
  \* stands, its locals page_num and text, and what it returned; for a page
  \* of pdfplumber the index i of _extract_page_text_multiple_strategies,
  \* the calls it has made on the page and what it returned
  ex_method, ex_file, ex_pc, page_num, ex_text, ex_result, strategy_i,
  page_calls, page_text,
  \* a second call of process_judgment_enhanced that runs on this extractor
  \* at the same time, in another thread: its arguments, where it stands,
  \* the extraction methods it has run and what it returned
  other_run

numVars == <<num_text, num_lines, num_i, formatted_lines, num_pc, num_result>>
selfVars ==
  <<extracted_text, formatted_html, judgment_metadata, confidence_score,
    processing_errors>>
parseVars ==
  <<parse_text, cleaned_text, metadata, confidence_scores, parse_pc, parse_result>>
runVars ==
  <<pdf_file, extraction_method, pipe_pc, attempts, pipe_result,
    earlier_results>>
extractVars ==
  <<ex_method, ex_file, ex_pc, page_num, ex_text, ex_result, strategy_i,
    page_calls, page_text>>
pipeVars == <<runVars, other_run, extractVars>>
vars == <<numVars, selfVars, parseVars, pipeVars>>

\* __init__: the fields of a new extractor
Constructed ==
  /\ extracted_text = <<>>
  /\ formatted_html = <<>>
  /\ judgment_metadata = JudgmentMetadata
  /\ confidence_score = FZero
  /\ processing_errors = <<>>

\* no call of preserve_enhanced_numbering is under way
NumberingIdle ==
  /\ num_text = <<>>
  /\ num_lines = <<>>
  /\ num_i = 0
  /\ formatted_lines = <<>>
  /\ num_pc = "idle"
  /\ num_result = <<>>
\* no call of smart_parse_judgment_structure is under way
ParseIdle ==
  /\ parse_text = <<>>
  /\ cleaned_text = <<>>
  /\ metadata = JudgmentMetadata
  /\ confidence_scores = <<>>
  /\ parse_pc = "idle"
  /\ parse_result = None
\* a call of process_judgment_enhanced in another thread
Run(file, method, pc) ==
  [pdf_file |-> file, extraction_method |-> method, pc |-> pc,
   attempts |-> <<>>, result |-> None]
\* there is no other thread
NoOtherRun == Run(PdfFile(Opens, Opens, <<>>), "pdfplumber", "idle")

\* no call of an extraction method by itself is under way
ExtractIdle ==
  /\ ex_method = "pdfplumber"
  /\ ex_file = PdfFile(Opens, Opens, <<>>)
  /\ ex_pc = "idle"
  /\ page_num = 0
  /\ ex_text = <<>>
  /\ ex_result = None
  /\ strategy_i = 0
  /\ page_calls = <<>>
  /\ page_text = <<>>

\* no call of process_judgment_enhanced is under way
PipelineIdle ==
  /\ ExtractIdle
  /\ pdf_file = PdfFile(Opens, Opens, <<>>)
  /\ extraction_method = "pdfplumber"
  /\ pipe_pc = "idle"
  /\ attempts = <<>>
  /\ pipe_result = None
  /\ earlier_results = <<>>
  /\ other_run = NoOtherRun

(***************************************************************************)
(* preserve_enhanced_numbering, statement by statement                     *)
(***************************************************************************)
\* the last entry of fl is a block a following line could be merged into
OpenBlock(fl) ==
  fl # <<>> /\ fl[Len(fl)].class \in NumberingClasses \cup {"paragraph"}

\* fl with the text of line merged into its last entry
Merged(fl, sep, line) ==
  [fl EXCEPT ![Len(fl)].content = @ \o sep \o line]

\* AppendLine with a page marker consumed but not appended
AppendLine_SkipPageMarker(fl, original_line) ==
  IF IsPageMarker(Strip(original_line)) THEN fl
  ELSE Append(fl, FormatLine(original_line))

\* AppendLine with a join test: a paragraph line is merged into the open
\* block when that block ends with a hyphen (the hyphen dropped, no space) or
\* when the line starts with a lower-case letter (one space)
AppendLine_JoinTest(fl, original_line) ==
  LET e == FormatLine(original_line)
      prev == fl[Len(fl)].content
  IN  IF e.class = "paragraph" /\ OpenBlock(fl) /\ prev[Len(prev)] = "-"
      THEN [fl EXCEPT ![Len(fl)].content = SubSeq(prev, 1, Len(prev) - 1) \o e.content]
      ELSE IF e.class = "paragraph" /\ OpenBlock(fl) /\ e.content[1] \in Lower
      THEN Merged(fl, <<" ">>, e.content)
      ELSE Append(fl, e)

\* AppendLine with every paragraph line merged into the open block
AppendLine_JoinAll(fl, original_line) ==
  LET e == FormatLine(original_line)
  IN  IF e.class = "paragraph" /\ OpenBlock(fl)
      THEN Merged(fl, <<" ">>, e.content)
      ELSE Append(fl, e)

\* the loop body: formatted_lines after the iteration for original_line
AppendLine(fl, original_line) == Append(fl, FormatLine(original_line))

InitNumbering ==
  /\ num_text \in NumberingTexts
  /\ num_lines = <<>>
  /\ num_i = 0
  /\ formatted_lines = <<>>
  /\ num_pc = "start"
  /\ num_result = <<>>
  /\ Constructed
  /\ ParseIdle
  /\ PipelineIdle

\* lines = text.split('\n'); formatted_lines = []
NumSplit ==
  /\ num_pc = "start"
  /\ num_lines' = Split(num_text, "\n")
  /\ formatted_lines' = <<>>
  /\ num_i' = 0
  /\ num_pc' = "loop"
  /\ UNCHANGED <<num_text, num_result, selfVars, parseVars, pipeVars>>

\* for line in lines: one iteration
NumLine ==
  /\ num_pc = "loop"
  /\ num_i < Len(num_lines)
  /\ formatted_lines' = AppendLine(formatted_lines, num_lines[num_i + 1])
  /\ num_i' = num_i + 1
  /\ UNCHANGED <<num_text, num_lines, num_pc, num_result, selfVars, parseVars,
                 pipeVars>>

\* return '\n'.join(formatted_lines): no entry holds a line break, so the
\* joined string is kept as the sequence of its lines
NumReturn ==
  /\ num_pc = "loop"
  /\ num_i = Len(num_lines)
  /\ num_result' = formatted_lines
  /\ num_pc' = "done"
  /\ UNCHANGED <<num_text, num_lines, num_i, formatted_lines, selfVars,
                 parseVars, pipeVars>>

NextNumbering == NumSplit \/ NumLine \/ NumReturn

SpecNumbering == InitNumbering /\ [][NextNumbering]_vars

(***************************************************************************)
(* smart_parse_judgment_structure, step by step                            *)
(***************************************************************************)
\* the fields of an extractor before a call of
\* smart_parse_judgment_structure: those of a new extractor, or those an
\* earlier call on one of EarlierTexts has left, which differ in
\* confidence_score
EarlierTexts == {F_Court}
UsedBefore ==
  /\ extracted_text = <<>>
  /\ formatted_html = <<>>
  /\ judgment_metadata = JudgmentMetadata
  /\ confidence_score \in
        {smart_parse_judgment_structure(t).confidence_score : t \in EarlierTexts}
  /\ processing_errors = <<>>

InitParse ==
  /\ parse_text \in ParseTexts
  /\ parse_pc = "start"
  /\ cleaned_text = <<>>
  /\ metadata = JudgmentMetadata
  /\ confidence_scores = <<>>
  /\ parse_result = None
  /\ Constructed \/ UsedBefore
  /\ NumberingIdle
  /\ PipelineIdle

\* metadata = JudgmentMetadata(); confidence_scores = {};
\* cleaned_text = self._clean_text(text)
StepClean ==
  /\ parse_pc = "start"
  /\ metadata' = JudgmentMetadata
  /\ confidence_scores' = <<>>
  /\ cleaned_text' = _clean_text(parse_text)
  /\ parse_pc' = "case_number"
  /\ UNCHANGED <<parse_text, parse_result, selfVars, numVars, pipeVars>>

\* one step that works on metadata and confidence_scores
ParseStep(pc, parsed, next) ==
  /\ parse_pc = pc
  /\ metadata' = parsed.metadata
  /\ confidence_scores' = parsed.confidence_scores
  /\ parse_pc' = next
  /\ UNCHANGED <<parse_text, cleaned_text, parse_result, selfVars, numVars,
                 pipeVars>>

StepCaseNumber ==
  ParseStep("case_number",
            ParseCaseNumber(cleaned_text, metadata, confidence_scores),
                "parties")
StepParties ==
  ParseStep("parties",
            ParseParties(cleaned_text, metadata, confidence_scores), "dates")
StepDates ==
  ParseStep("dates", ParseDates(cleaned_text, metadata, confidence_scores),
            "judge")
StepJudge ==
  ParseStep("judge", ParseJudge(cleaned_text, metadata, confidence_scores),
            "court")
StepCourt ==
  ParseStep("court", ParseCourt(cleaned_text, metadata, confidence_scores),
            "counsel")
StepCounsel ==
  ParseStep("counsel",
            Parsed(ParseCounsel(cleaned_text, metadata), confidence_scores),
            "confidence")

\* StepConfidence with the score of this call averaged with the score the
\* extractor held before
StepConfidence_Running ==
  /\ parse_pc = "confidence"
  /\ confidence_score' =
       FloatDiv(FloatAdd(confidence_score,
                         OverallConfidence(confidence_scores)), 2)
  /\ parse_pc' = "type"
  /\ UNCHANGED <<parse_text, cleaned_text, metadata, confidence_scores,
                 parse_result, extracted_text, formatted_html,
                 judgment_metadata, processing_errors, numVars, pipeVars>>

\* self.confidence_score = sum(...) / len(...) if confidence_scores else 0.0
StepConfidence ==
  /\ parse_pc = "confidence"
  /\ confidence_score' = OverallConfidence(confidence_scores)
  /\ parse_pc' = "type"
  /\ UNCHANGED <<parse_text, cleaned_text, metadata, confidence_scores,
                 parse_result, extracted_text, formatted_html,
                 judgment_metadata, processing_errors, numVars, pipeVars>>

\* the case type, the subject matter and return metadata
StepReturn ==
  /\ parse_pc = "type"
  /\ metadata' = ParseTypeAndSubject(cleaned_text, metadata)
  /\ parse_result' = metadata'
  /\ parse_pc' = "done"
  /\ UNCHANGED <<parse_text, cleaned_text, confidence_scores, selfVars,
      numVars,
                 pipeVars>>

NextParse ==
  \/ StepClean
  \/ StepCaseNumber
  \/ StepParties
  \/ StepDates
  \/ StepJudge
  \/ StepCourt
  \/ StepCounsel
  \/ StepConfidence
  \/ StepReturn

SpecParse == InitParse /\ [][NextParse]_vars

(***************************************************************************)
(* process_judgment_enhanced, step by step                                 *)
(***************************************************************************)
InitPipeline ==
  /\ pdf_file \in PdfFiles
  /\ extraction_method \in ExtractionMethods
  /\ pipe_pc = "call"
  /\ attempts = <<>>
  /\ pipe_result = None
  /\ earlier_results = <<>>
  /\ other_run = NoOtherRun
  /\ ExtractIdle
  /\ Constructed
  /\ NumberingIdle
  /\ ParseIdle

\* Reset without "self.processing_errors = []"
Reset_KeepErrors ==
  /\ pipe_pc = "call"
  /\ extracted_text' = <<>>
  /\ formatted_html' = <<>>
  /\ judgment_metadata' = JudgmentMetadata
  /\ confidence_score' = FZero
  /\ pipe_pc' = "extract"
  /\ UNCHANGED <<other_run, earlier_results, pdf_file, extraction_method, attempts,
                 pipe_result, processing_errors, numVars, extractVars, parseVars>>

\* the reset of the processing state
Reset ==
  /\ pipe_pc = "call"
  /\ extracted_text' = <<>>
  /\ formatted_html' = <<>>
  /\ judgment_metadata' = JudgmentMetadata
  /\ confidence_score' = FZero
  /\ processing_errors' = <<>>
  /\ pipe_pc' = "extract"
  /\ UNCHANGED <<other_run, earlier_results, pdf_file, extraction_method, attempts, pipe_result, numVars, extractVars,
                 parseVars>>

\* self.extracted_text = the extraction by method
Extract(method, next) ==
  LET extracted == ExtractWith(method, pdf_file, processing_errors)
  IN  /\ extracted_text' = extracted.text
      /\ processing_errors' = extracted.processing_errors
      /\ attempts' = Append(attempts, method)
      /\ pipe_pc' = next
      /\ UNCHANGED <<other_run, earlier_results, pdf_file, extraction_method, pipe_result, formatted_html,
                     judgment_metadata, confidence_score, numVars, extractVars, parseVars>>

\* the extraction by the selected method
ExtractPrimary ==
  /\ pipe_pc = "extract"
  /\ Extract(extraction_method, "check")

\* the first text is not sufficient: the extraction by the other method
ExtractFallback ==
  /\ pipe_pc = "check"
  /\ Insufficient(extracted_text)
  /\ Extract(OtherMethod(extraction_method), "check_fallback")

\* the second text is not sufficient either
ReturnInsufficient ==
  /\ pipe_pc = "check_fallback"
  /\ Insufficient(extracted_text)
  /\ pipe_result' = InsufficientResult
  /\ pipe_pc' = "returned"
  /\ UNCHANGED <<other_run, earlier_results, pdf_file, extraction_method, attempts, selfVars, numVars, extractVars,
                 parseVars>>

\* a sufficient text was extracted
ReadyToParse ==
  pipe_pc \in {"check", "check_fallback"} /\ ~Insufficient(extracted_text)

\* self.judgment_metadata = self.smart_parse_judgment_structure(...), which
\* sets self.confidence_score
Parse ==
  /\ ReadyToParse
  /\ \E parsed \in {smart_parse_judgment_structure(extracted_text)} :
       /\ judgment_metadata' = parsed.metadata
       /\ confidence_score' = parsed.confidence_score
  /\ pipe_pc' = "html"
  /\ UNCHANGED <<other_run, earlier_results, pdf_file, extraction_method, attempts, pipe_result,
                 extracted_text, formatted_html, processing_errors, numVars, extractVars,
                 parseVars>>

\* self.formatted_html = self.generate_enhanced_html(...); the empty string
\* is <<>>, a page the one-element list of its record
GenerateHtml ==
  /\ pipe_pc = "html"
  /\ \E now \in Clock :
       formatted_html' =
         <<generate_enhanced_html(extracted_text, judgment_metadata,
                                  confidence_score, processing_errors, now)>>
  /\ pipe_pc' = "report"
  /\ UNCHANGED <<other_run, earlier_results, pdf_file, extraction_method, attempts, pipe_result,
                 extracted_text, judgment_metadata, confidence_score,
                 processing_errors, numVars, extractVars, parseVars>>

\* return True, success_message
ReturnSuccess ==
  /\ pipe_pc = "report"
  /\ pipe_result' = SuccessResult(confidence_score, processing_errors)
  /\ pipe_pc' = "returned"
  /\ UNCHANGED <<other_run, earlier_results, pdf_file, extraction_method, attempts, selfVars, numVars, extractVars,
                 parseVars>>

\* except Exception as e: parsing or the generation of the page raises
StepRaises ==
  /\ ReadyToParse \/ pipe_pc = "html"
  /\ \E e \in StepErrors :
       /\ processing_errors' = Append(processing_errors, CriticalError(e))
       /\ pipe_result' = ErrorResult(e)
  /\ pipe_pc' = "returned"
  /\ UNCHANGED <<other_run, earlier_results, pdf_file, extraction_method, attempts, extracted_text,
                 formatted_html, judgment_metadata, confidence_score, numVars, extractVars,
                 parseVars>>

NextPipeline ==
  \/ Reset
  \/ ExtractPrimary
  \/ ExtractFallback
  \/ ReturnInsufficient
  \/ Parse
  \/ GenerateHtml
  \/ ReturnSuccess
  \/ StepRaises

SpecPipeline == InitPipeline /\ [][NextPipeline]_vars

(***************************************************************************)
(* Calls of process_judgment_enhanced one after the other on one           *)
(* extractor: the method is public and resets the fields itself            *)
(***************************************************************************)
\* the most calls on one extractor
MaxCalls == 2

\* the files of the calls: one that neither library reads, and one of two
\* pages that pdfplumber gets a sufficient text of and PyPDF2 does not
RepeatFiles ==
  {File_Unreadable, PdfFile(Opens, Opens, <<Page_Layout, Page_Plain>>)}

InitRepeated ==
  /\ pdf_file \in RepeatFiles
  /\ extraction_method \in ExtractionMethods
  /\ pipe_pc = "call"
  /\ attempts = <<>>
  /\ pipe_result = None
  /\ earlier_results = <<>>
  /\ other_run = NoOtherRun
  /\ ExtractIdle
  /\ Constructed
  /\ NumberingIdle
  /\ ParseIdle

\* the call has returned and process_judgment_enhanced is called again, on
\* the extractor as the call left it
CallAgain ==
  /\ pipe_pc = "returned"
  /\ Len(earlier_results) < MaxCalls - 1
  /\ earlier_results' = Append(earlier_results, pipe_result)
  /\ pdf_file' \in RepeatFiles
  /\ extraction_method' \in ExtractionMethods
  /\ pipe_pc' = "call"
  /\ attempts' = <<>>
  /\ pipe_result' = None
  /\ UNCHANGED <<other_run, selfVars, numVars, extractVars, parseVars>>

NextRepeated ==
  \/ Reset
  \/ ExtractPrimary
  \/ ExtractFallback
  \/ ReturnInsufficient
  \/ Parse
  \/ GenerateHtml
  \/ ReturnSuccess
  \/ StepRaises
  \/ CallAgain

SpecRepeated == InitRepeated /\ [][NextRepeated]_vars

(***************************************************************************)
(* Two calls of process_judgment_enhanced on one extractor at the same     *)
(* time: the threads take turns between the statements of the method, and  *)
(* both work on the fields of the one extractor                            *)
(***************************************************************************)
\* the file of the first thread, which pdfplumber gets a sufficient text
\* of, and the file of the second, which neither library reads
File_TwoPages == PdfFile(Opens, Opens, <<Page_Layout, Page_Plain>>)

InitConcurrent ==
  /\ pdf_file = File_TwoPages
  /\ extraction_method = "pdfplumber"
  /\ pipe_pc = "call"
  /\ attempts = <<>>
  /\ pipe_result = None
  /\ earlier_results = <<>>
  /\ other_run = Run(File_Unreadable, "pdfplumber", "call")
  /\ ExtractIdle
  /\ Constructed
  /\ NumberingIdle
  /\ ParseIdle

\* the second thread moves to pc, with the fields of the extractor it does
\* not assign left alone
OtherStep(pc) ==
  /\ other_run' = [other_run EXCEPT !.pc = pc]
  /\ UNCHANGED <<runVars, numVars, extractVars, parseVars>>

OtherReset ==
  /\ other_run.pc = "call"
  /\ extracted_text' = <<>>
  /\ formatted_html' = <<>>
  /\ judgment_metadata' = JudgmentMetadata
  /\ confidence_score' = FZero
  /\ processing_errors' = <<>>
  /\ OtherStep("extract")

OtherExtract(method, next) ==
  /\ \E extracted \in
          {ExtractWith(method, other_run.pdf_file, processing_errors)} :
       /\ extracted_text' = extracted.text
       /\ processing_errors' = extracted.processing_errors
  /\ other_run' = [other_run EXCEPT !.pc = next,
                                    !.attempts = Append(@, method)]
  /\ UNCHANGED <<runVars, formatted_html, judgment_metadata,
                 confidence_score, numVars, extractVars, parseVars>>

OtherExtractPrimary ==
  /\ other_run.pc = "extract"
  /\ OtherExtract(other_run.extraction_method, "check")

OtherExtractFallback ==
  /\ other_run.pc = "check"
  /\ Insufficient(extracted_text)
  /\ OtherExtract(OtherMethod(other_run.extraction_method), "check_fallback")

OtherReturn(result) ==
  /\ other_run' = [other_run EXCEPT !.pc = "returned", !.result = result]
  /\ UNCHANGED <<runVars, numVars, extractVars, parseVars>>

OtherReturnInsufficient ==
  /\ other_run.pc = "check_fallback"
  /\ Insufficient(extracted_text)
  /\ OtherReturn(InsufficientResult)
  /\ UNCHANGED selfVars

OtherReadyToParse ==
  other_run.pc \in {"check", "check_fallback"} /\ ~Insufficient(extracted_text)

OtherParse ==
  /\ OtherReadyToParse
  /\ \E parsed \in {smart_parse_judgment_structure(extracted_text)} :
       /\ judgment_metadata' = parsed.metadata
       /\ confidence_score' = parsed.confidence_score
  /\ OtherStep("html")
  /\ UNCHANGED <<extracted_text, formatted_html, processing_errors>>

OtherGenerateHtml ==
  /\ other_run.pc = "html"
  /\ \E now \in Clock :
       formatted_html' =
         <<generate_enhanced_html(extracted_text, judgment_metadata,
                                  confidence_score, processing_errors, now)>>
  /\ OtherStep("report")
  /\ UNCHANGED <<extracted_text, judgment_metadata, confidence_score,
                 processing_errors>>

OtherReturnSuccess ==
  /\ other_run.pc = "report"
  /\ OtherReturn(SuccessResult(confidence_score, processing_errors))
  /\ UNCHANGED selfVars

OtherStepRaises ==
  /\ OtherReadyToParse \/ other_run.pc = "html"
  /\ \E e \in StepErrors :
       /\ processing_errors' = Append(processing_errors, CriticalError(e))
       /\ OtherReturn(ErrorResult(e))
  /\ UNCHANGED <<extracted_text, formatted_html, judgment_metadata,
                 confidence_score>>

NextConcurrent ==
  \/ Reset
  \/ ExtractPrimary
  \/ ExtractFallback
  \/ ReturnInsufficient
  \/ Parse
  \/ GenerateHtml
  \/ ReturnSuccess
  \/ StepRaises
  \/ OtherReset
  \/ OtherExtractPrimary
  \/ OtherExtractFallback
  \/ OtherReturnInsufficient
  \/ OtherParse
  \/ OtherGenerateHtml
  \/ OtherReturnSuccess
  \/ OtherStepRaises

SpecConcurrent == InitConcurrent /\ [][NextConcurrent]_vars

(***************************************************************************)
(* extract_text_pdfplumber and extract_text_pypdf2, page by page, and      *)
(* _extract_page_text_multiple_strategies, call by call                    *)
(***************************************************************************)
InitExtract ==
  /\ ex_method \in ExtractionMethods
  /\ ex_file \in ExtractFiles
  /\ ex_pc = "open"
  /\ page_num = 0
  /\ ex_text = <<>>
  /\ ex_result = None
  /\ strategy_i = 0
  /\ page_calls = <<>>
  /\ page_text = <<>>
  /\ Constructed
  /\ NumberingIdle
  /\ ParseIdle
  /\ pdf_file = PdfFile(Opens, Opens, <<>>)
  /\ extraction_method = "pdfplumber"
  /\ pipe_pc = "idle"
  /\ attempts = <<>>
  /\ pipe_result = None
  /\ earlier_results = <<>>
  /\ other_run = NoOtherRun

\* what the extraction leaves alone, processing_errors apart
extractRest ==
  <<numVars, parseVars, runVars, other_run, extracted_text, formatted_html,
    judgment_metadata, confidence_score>>

\* the outcome of pdfplumber.open(pdf_file) or PyPDF2.PdfReader(pdf_file)
Opened(method, file) ==
  IF method = "pdfplumber" THEN file.pdfplumber ELSE file.pypdf2
\* the name the error entry of the outer handler starts with
LibraryName(method) == IF method = "pdfplumber" THEN "PDFPlumber" ELSE "PyPDF2"

\* the library cannot open the file: the outer handler records the error and
\* returns ""
ExOpenRaises ==
  /\ ex_pc = "open"
  /\ Opened(ex_method, ex_file).kind = "raise"
  /\ processing_errors' =
       Append(processing_errors,
              MethodError(LibraryName(ex_method),
                          Opened(ex_method, ex_file).error))
  /\ ex_result' = Returns(<<>>)
  /\ ex_pc' = "returned"
  /\ UNCHANGED <<ex_method, ex_file, page_num, ex_text, strategy_i,
                 page_calls, page_text, extractRest>>

\* text = "" and the page loop starts
ExOpen ==
  /\ ex_pc = "open"
  /\ Opened(ex_method, ex_file).kind # "raise"
  /\ ex_text' = <<>>
  /\ page_num' = 0
  /\ strategy_i' = 0
  /\ ex_pc' = "page"
  /\ UNCHANGED <<ex_method, ex_file, ex_result, page_calls, page_text,
                 processing_errors, extractRest>>

\* the page the loop stands at
ThisPage == ex_file.pages[page_num + 1]
MorePages == ex_pc = "page" /\ page_num < Len(ex_file.pages)

\* one turn of the page loop of extract_text_pypdf2
ExPyPdfPage ==
  /\ MorePages
  /\ ex_method = "pypdf2"
  /\ IF ThisPage.pypdf2.kind = "raise"
     THEN /\ processing_errors' =
               Append(processing_errors,
                      PageError(page_num + 1, ThisPage.pypdf2.error))
          /\ ex_text' = ex_text
     ELSE /\ ex_text' = IF NonBlank(ThisPage.pypdf2)
                        THEN ex_text \o PageBlock(page_num + 1,
                                                  ThisPage.pypdf2.value)
                        ELSE ex_text
          /\ processing_errors' = processing_errors
  /\ page_num' = page_num + 1
  /\ UNCHANGED <<ex_method, ex_file, ex_pc, ex_result, strategy_i,
                 page_calls, page_text, extractRest>>

\* extract_text_pdfplumber calls _extract_page_text_multiple_strategies
ExPageCall ==
  /\ MorePages
  /\ ex_method = "pdfplumber"
  /\ strategy_i' = 0
  /\ page_calls' = <<>>
  /\ page_text' = <<>>
  /\ ex_pc' = "strategies"
  /\ UNCHANGED <<ex_method, ex_file, page_num, ex_text, ex_result,
                 processing_errors, extractRest>>

\* one turn of the loop over the strategies: strategy i (0-based) is called;
\* its text is returned if it is not blank, else the loop goes on
ExStrategy ==
  /\ ex_pc = "strategies"
  /\ strategy_i < StrategyCount
  /\ page_calls' = Append(page_calls, PageCalls[strategy_i + 1])
  /\ IF NonBlank(ThisPage.strategies[strategy_i + 1])
     THEN /\ page_text' = ThisPage.strategies[strategy_i + 1].value
          /\ ex_pc' = "page_returned"
          /\ strategy_i' = strategy_i
     ELSE /\ page_text' = page_text
          /\ ex_pc' = ex_pc
          /\ strategy_i' = strategy_i + 1
  /\ UNCHANGED <<ex_method, ex_file, page_num, ex_text, ex_result,
                 processing_errors, extractRest>>

\* no strategy gave text: page.extract_words() and the reconstruction of
\* the text from the words, or "" when there are none or the call raises
ExWords ==
  /\ ex_pc = "strategies"
  /\ strategy_i = StrategyCount
  /\ page_calls' = Append(page_calls, PageCalls[StrategyCount + 1])
  /\ page_text' = IF ThisPage.words.kind = "return"
                     /\ ThisPage.words.value # <<>>
                  THEN ReconstructedText(ThisPage.words.value)
                  ELSE <<>>
  /\ ex_pc' = "page_returned"
  /\ UNCHANGED <<ex_method, ex_file, page_num, ex_text, ex_result,
                 strategy_i, processing_errors, extractRest>>

\* the rest of the turn of the page loop of extract_text_pdfplumber
ExPlumberPage ==
  /\ ex_pc = "page_returned"
  /\ ex_text' = IF Strip(page_text) # <<>>
                THEN ex_text \o PageBlock(page_num + 1, page_text)
                ELSE ex_text
  /\ page_num' = page_num + 1
  /\ ex_pc' = "page"
  /\ UNCHANGED <<ex_method, ex_file, ex_result, strategy_i, page_calls,
                 page_text, processing_errors, extractRest>>

\* return text
ExReturn ==
  /\ ex_pc = "page"
  /\ page_num = Len(ex_file.pages)
  /\ ex_result' = Returns(ex_text)
  /\ ex_pc' = "returned"
  /\ UNCHANGED <<ex_method, ex_file, page_num, ex_text, strategy_i,
                 page_calls, page_text, processing_errors, extractRest>>

NextExtract ==
  \/ ExOpenRaises
  \/ ExOpen
  \/ ExPyPdfPage
  \/ ExPageCall
  \/ ExStrategy
  \/ ExWords
  \/ ExPlumberPage
  \/ ExReturn

SpecExtract == InitExtract /\ [][NextExtract]_vars

(***************************************************************************)
(* Properties of preserve_enhanced_numbering (under SpecNumbering)         *)
(***************************************************************************)
\* the CSS classes the function can emit
AllClasses ==
  {"page-marker", "case-header", "legal-heading", "all-caps-heading",
   "paragraph"} \cup NumberingClasses

MatchesNumbering(line) ==
  \E n \in DOMAIN numbering_patterns :
     ReMatches(numbering_patterns[n][1], line, NoFlags)

MatchesNoRule(line) ==
  /\ ~IsPageMarker(line)
  /\ ~IsCaseHeader(line)
  /\ ~MatchesNumbering(line)
  /\ ~IsLegalHeading(line)
  /\ ~IsAllCapsHeading(line)

\* the stripped i-th input line
Stripped(i) == Strip(num_lines[i])

\* the output entries that are blocks (not the empty marker)
Blocks(fl) == SelectSeq(fl, LAMBDA e : e # EmptyMarker)
Contents(fl) == [i \in DOMAIN Blocks(fl) |-> Blocks(fl)[i].content]
\* the stripped lines of ls that are not empty, in order
NonEmptyLines(ls) ==
  SelectSeq([i \in DOMAIN ls |-> Strip(ls[i])], LAMBDA l : l # <<>>)

\* C1: classification is total: after every iteration there is exactly one
\* entry per consumed line; an empty or whitespace-only line gets the empty
\* marker, every other line one CSS class of the closed set, a line that
\* matches no rule gets 'paragraph'; the next iteration is defined for
\* whatever line comes next, and the call returns one entry per line.
C1_ClassificationTotal ==
  /\ Len(formatted_lines) = num_i
  /\ \A i \in 1..num_i :
       /\ (Stripped(i) = <<>>) <=> (formatted_lines[i] = EmptyMarker)
       /\ Stripped(i) # <<>> =>
            /\ formatted_lines[i].class \in AllClasses
            /\ formatted_lines[i].content = Stripped(i)
       /\ (Stripped(i) # <<>> /\ MatchesNoRule(Stripped(i))) =>
            formatted_lines[i].class = "paragraph"
  /\ (num_pc = "loop" /\ num_i < Len(num_lines)) =>
       LET next == AppendLine(formatted_lines, num_lines[num_i + 1])
       IN  Len(next) = num_i + 1 /\ next[num_i + 1].class \in AllClasses \cup {""}
  /\ num_pc = "done" => Len(num_result) = Len(Split(num_text, "\n"))

\* a finished call that met an empty line, a line no rule matches and a
\* numbering line
C1_Witness ==
  /\ num_pc = "done"
  /\ \E i, j, k \in DOMAIN num_result :
       /\ num_result[i] = EmptyMarker
       /\ num_result[j].class = "paragraph" /\ MatchesNoRule(Stripped(j))
       /\ num_result[k].class \in NumberingClasses

\* C2: reconstruction is lossless and order-preserving: the contents of the
\* output blocks are exactly the non-empty (stripped) input lines, each
\* once, in the input order, after every iteration and in the result.
C2_Lossless ==
  /\ num_pc \in {"loop", "done"} =>
       Contents(formatted_lines) = NonEmptyLines(SubSeq(num_lines, 1, num_i))
  /\ num_pc = "done" =>
       Contents(num_result) = NonEmptyLines(Split(num_text, "\n"))

\* a finished call on three lines: a page marker, an empty line and a
\* repeated line
C2_Witness ==
  /\ num_pc = "done"
  /\ Len(num_lines) = 3
  /\ \E i, j, k \in 1..3 :
       /\ i # j
       /\ Stripped(i) = Stripped(j) /\ Stripped(i) # <<>>
       /\ Stripped(k) = <<>>
  /\ Len(Contents(num_result)) = 2

\* the rules in their priority order; the nine numbering patterns are rules
\* 3 to 11
RuleCount == Len(numbering_patterns) + 5
RuleApplies(n, line) ==
  IF n = 1 THEN IsPageMarker(line)
  ELSE IF n = 2 THEN IsCaseHeader(line)
  ELSE IF n <= Len(numbering_patterns) + 2
       THEN ReMatches(numbering_patterns[n - 2][1], line, NoFlags)
  ELSE IF n = Len(numbering_patterns) + 3 THEN IsLegalHeading(line)
  ELSE IF n = Len(numbering_patterns) + 4 THEN IsAllCapsHeading(line)
  ELSE TRUE
RuleClass(n) ==
  IF n = 1 THEN "page-marker"
  ELSE IF n = 2 THEN "case-header"
  ELSE IF n <= Len(numbering_patterns) + 2 THEN numbering_patterns[n - 2][2]
  ELSE IF n = Len(numbering_patterns) + 3 THEN "legal-heading"
  ELSE IF n = Len(numbering_patterns) + 4 THEN "all-caps-heading"
  ELSE "paragraph"

\* C3: the rules are evaluated in one fixed order and the first match wins:
\* a line's class is that of the first rule, in the order page marker, party
\* separator, the nine numbering patterns, legal phrase, all caps,
\* paragraph, that applies to it.  A line with a party separator (short
\* line) and a numbering marker is a case header; an all-upper-case line
\* with a numbering marker is never an all-caps heading: it gets its
\* numbering class, or the case-header class when it holds a party
\* separator too.
C3_FirstMatchWins ==
  /\ Len(formatted_lines) = num_i
  /\ \A i \in 1..num_i :
       LET line == Stripped(i)
           class == formatted_lines[i].class
       IN  line # <<>> =>
             /\ class = RuleClass(MinOf({n \in 1..RuleCount : RuleApplies(n, line)}))
             /\ (IsCaseHeader(line) /\ MatchesNumbering(line)) =>
                  class = "case-header"
             /\ (IsUpper(line) /\ MatchesNumbering(line)) =>
                  /\ class # "all-caps-heading"
                  /\ class \in NumberingClasses \/ IsCaseHeader(line)

\* a finished call that met a party line with a numbering marker and an
\* all-upper-case line, long enough for a heading, with a numbering marker
C3_Witness ==
  /\ num_pc = "done"
  /\ \E i \in DOMAIN num_result :
       /\ IsCaseHeader(Stripped(i)) /\ MatchesNumbering(Stripped(i))
       /\ num_result[i].class = "case-header"
  /\ \E i \in DOMAIN num_result :
       /\ IsAllCapsHeading(Stripped(i)) /\ MatchesNumbering(Stripped(i))
       /\ num_result[i].class \in NumberingClasses

\* C4: a line that begins with a lower-case Roman numeral in parentheses,
\* the one-letter numerals (i), (v) and (x) included, is classified
\* sub-points and not lettered-points.  (Stated for the lines the numbering
\* patterns get to see: no page marker, no party separator.)
C4_RomanBeforeLetter ==
  /\ Len(formatted_lines) = num_i
  /\ \A i \in 1..num_i :
       (/\ ReMatches(SubPointsRe, Stripped(i), NoFlags)
        /\ ~IsPageMarker(Stripped(i))
        /\ ~IsCaseHeader(Stripped(i))) =>
          /\ formatted_lines[i].class = "sub-points"
          /\ formatted_lines[i].class # "lettered-points"

\* a legal phrase followed by a colon: PRESENT:, CORAM: or HEARD:
HasPresentPhrase(line) ==
  \E phrase \in {S_PRESENT, S_CORAM, S_HEARD} : Contains(StrUpper(line), phrase)

\* C5 as claimed: a line that starts with a numbering marker and contains
\* 'Present:' (or Coram:, Heard:) is classified legal-heading, not under a
\* numbering class.
C5_PresentBeforeNumbering ==
  /\ Len(formatted_lines) = num_i
  /\ \A i \in 1..num_i :
       (/\ MatchesNumbering(Stripped(i))
        /\ HasPresentPhrase(Stripped(i))
        /\ ~IsCaseHeader(Stripped(i))) =>
          /\ formatted_lines[i].class = "legal-heading"
          /\ formatted_lines[i].class \notin NumberingClasses

\* C5, amended: the Present/Coram/Heard rule has lower priority than every
\* numbering rule: a line that starts with a numbering marker and contains
\* 'Present:' gets its numbering class (the case-header class when it holds
\* a party separator), never legal-heading; legal-heading is the class of
\* exactly the lines with a legal phrase that no page-marker,
\* party-separator or numbering rule matches.
C5_NumberingBeforePresent ==
  /\ Len(formatted_lines) = num_i
  /\ \A i \in 1..num_i :
       LET line == Stripped(i)
           class == formatted_lines[i].class
       IN  /\ (MatchesNumbering(line) /\ HasPresentPhrase(line)) =>
                /\ class # "legal-heading"
                /\ class \in NumberingClasses \/ IsCaseHeader(line)
           /\ (class = "legal-heading") <=>
                /\ IsLegalHeading(line)
                /\ ~IsPageMarker(line)
                /\ ~IsCaseHeader(line)
                /\ ~MatchesNumbering(line)

\* a finished call on a line with a numbering marker and 'Present:', which
\* came out under its numbering class
C5_Witness ==
  /\ num_pc = "done"
  /\ \E i \in DOMAIN num_result :
       /\ MatchesNumbering(Stripped(i))
       /\ Contains(StrUpper(Stripped(i)), S_PRESENT)
       /\ num_result[i].class = "numbered-dots"

\* three input lines: a numbering line, a paragraph line that starts with a
\* lower-case letter, a numbering line
NumberingContinuationNumbering ==
  /\ num_pc = "done"
  /\ Len(num_lines) = 3
  /\ \A i \in 1..3 : Stripped(i) # <<>>
  /\ LineClass(Stripped(1)) \in NumberingClasses
  /\ LineClass(Stripped(2)) = "paragraph" /\ Stripped(2)[1] \in Lower
  /\ LineClass(Stripped(3)) \in NumberingClasses

HyphenThenParagraph ==
  /\ num_pc = "done"
  /\ Len(num_lines) = 2
  /\ \A i \in 1..2 : Stripped(i) # <<>> /\ LineClass(Stripped(i)) = "paragraph"
  /\ Stripped(1)[Len(Stripped(1))] = "-"

SentenceThenUpper(i) ==
  /\ i + 1 <= num_i
  /\ Stripped(i) # <<>> /\ Stripped(i + 1) # <<>>
  /\ LineClass(Stripped(i)) = "paragraph"
  /\ LineClass(Stripped(i + 1)) = "paragraph"
  /\ Stripped(i)[Len(Stripped(i))] \in {".", "!", "?"}
  /\ Stripped(i + 1)[1] \in Upper

\* C8: no block absorbs a line that by itself classifies as something other
\* than paragraph: every consumed line has an entry of its own, a
\* structural, page-marker or numbering line is the whole content of its
\* block under its own class, and a paragraph line that ends a sentence and
\* a following line that starts with an upper-case letter are two blocks.
C8_NoAbsorption ==
  /\ Len(formatted_lines) = num_i
  /\ \A i \in 1..num_i :
       LET class == LineClass(Stripped(i))
       IN  (Stripped(i) # <<>> /\ class # "paragraph") =>
              formatted_lines[i] = Div(class, Stripped(i))
  /\ \A i \in 1..num_i :
       SentenceThenUpper(i) =>
          /\ formatted_lines[i] = Div("paragraph", Stripped(i))
          /\ formatted_lines[i + 1] = Div("paragraph", Stripped(i + 1))

\* a finished call in which a sentence was followed by a line starting in
\* upper case and a paragraph line by a numbering line
C8_Witness ==
  /\ num_pc = "done"
  /\ \E i \in 1..num_i : SentenceThenUpper(i)
  /\ \E i \in 2..num_i :
       /\ Stripped(i - 1) # <<>> /\ LineClass(Stripped(i - 1)) = "paragraph"
       /\ Stripped(i) # <<>> /\ LineClass(Stripped(i)) \in NumberingClasses

(***************************************************************************)
(* Properties of smart_parse_judgment_structure (under SpecParse)          *)
(***************************************************************************)
\* the call has put a score for key into confidence_scores: it does so
\* exactly where it found the field
Scored(key) ==
  \E k \in DOMAIN confidence_scores : confidence_scores[k][1] = key

\* no pattern of court_patterns is in the cleaned text
NoCourtKeyword ==
  \A k \in DOMAIN CourtPatternList :
     ReSearch(CourtPatternList[k].pattern, cleaned_text, IgnoreCase) = NoMatch
\* no keyword of subjects is in the cleaned text
NoSubjectKeyword ==
  \A n \in DOMAIN subjects :
     ~ContainsAny(StrLower(cleaned_text), subjects[n][2])
\* the cleaned text has no Present section
NoPresentSection ==
  ReSearch(PresentSectionRe, cleaned_text, IgnoreCase) = NoMatch

\* the fields of the returned record that are empty when the case number,
\* the parties, the dates, the judge or the counsel are not found
AbsentFieldsEmpty ==
  /\ ~Scored("case_number") =>
        parse_result.case_number = <<>> /\ parse_result.case_year = <<>>
  /\ ~Scored("parties") =>
        /\ parse_result.parties_petitioner = <<>>
        /\ parse_result.parties_respondent = <<>>
  /\ ~Scored("dates") =>
        /\ parse_result.date_of_judgment = <<>>
        /\ parse_result.date_of_filing = <<>>
  /\ ~Scored("judge") => parse_result.judge_name = <<>>
  /\ NoPresentSection =>
        /\ parse_result.counsel_petitioner = <<>>
        /\ parse_result.counsel_respondent = <<>>

Returned == pipe_pc = "returned"

\* the call has returned and the extraction recovered no text: what is left
\* in extracted_text is empty or blank
ReturnedEmptyDocument == Returned /\ Strip(extracted_text) = <<>>

\* processing_errors holds k 'Critical error' entries
CriticalErrors(errors) ==
  Cardinality({k \in DOMAIN errors : errors[k].source = "Critical error"})

\* no page was generated and the metadata are the defaults
EmptyOutput ==
  /\ formatted_html = <<>>
  /\ judgment_metadata = JudgmentMetadata
  /\ confidence_score = FZero

\* C10 as stated: when extraction recovers no text the pipeline produces an
\* empty output and all-default metadata and does not return a failure
\* result.
C10_EmptyInputNoFailure ==
  ReturnedEmptyDocument => EmptyOutput /\ pipe_result.success

\* C10: when extraction recovers no text, process_judgment_enhanced runs
\* both extraction methods and returns the failure (False, 'Failed to
\* extract sufficient text from PDF using both methods'); the page stays
\* empty, the metadata the defaults and the confidence 0.0, and no
\* 'Critical error' is recorded.
C10_EmptyInputFails ==
  ReturnedEmptyDocument =>
    /\ pipe_result = InsufficientResult
    /\ attempts = <<extraction_method, OtherMethod(extraction_method)>>
    /\ EmptyOutput
    /\ CriticalErrors(processing_errors) = 0

\* the call on a file of one page without text has returned
C10_Witness ==
  /\ ReturnedEmptyDocument
  /\ pdf_file = PdfFile(Opens, Opens, <<Page_Blank>>)
  /\ ~pipe_result.success

\* the returned pair is the one of the except clause
ReturnedError == Returned /\ "error" \in DOMAIN pipe_result

\* C11: process_judgment_enhanced never raises: every call that has ended
\* has returned a (success flag, message) pair; when parsing or the
\* generation of the page raises, the pair is (False, 'Error processing
\* judgment: ...') and processing_errors ends with the one 'Critical error'
\* entry of that exception; a failure inside an extraction method is no
\* 'Critical error', and no other call records one.
C11_NeverRaises ==
  /\ Returned =>
        /\ pipe_result.success \in BOOLEAN
        /\ pipe_result.message \in Seq(STRING)
  /\ ReturnedError =>
        /\ ~pipe_result.success
        /\ pipe_result = ErrorResult(pipe_result.error)
        /\ pipe_result.error \in StepErrors
        /\ CriticalErrors(processing_errors) = 1
        /\ processing_errors[Len(processing_errors)]
              = CriticalError(pipe_result.error)
  /\ ~ReturnedError => CriticalErrors(processing_errors) = 0
  /\ ~Returned => pipe_result = None

\* the generation of the page has raised on a file whose first extraction
\* failed: the call has returned the pair of the except clause
C11_Witness ==
  /\ ReturnedError
  /\ pdf_file = File_NoPdfPlumber
  /\ extraction_method = "pdfplumber"
  /\ Len(processing_errors) = 2
  /\ judgment_metadata # JudgmentMetadata
  /\ formatted_html = <<>>

\* C12: metadata extraction is deterministic: the record a call of
\* smart_parse_judgment_structure returns and the confidence_score it sets
\* are a function of the text alone, the same on a new extractor and on one
\* that has parsed another text before.
C12_Deterministic ==
  parse_pc = "done" =>
    \E parsed \in {smart_parse_judgment_structure(parse_text)} :
       /\ parse_result = parsed.metadata
       /\ confidence_score = parsed.confidence_score

\* a finished call on an extractor that held another confidence_score
\* before, for a text in which parties and a date are found
C12_Witness ==
  /\ parse_pc = "done"
  /\ parse_text = Join(<<F_Parties, F_Date>>, "\n")
  /\ Scored("parties") /\ Scored("dates")
  /\ confidence_score # FZero

(***************************************************************************)
(* Properties of repeated calls (under SpecRepeated)                       *)
(***************************************************************************)
\* what process_judgment_enhanced extracts from file on a new extractor: the
\* text and the processing_errors after the selected method and, where its
\* text is insufficient, the other one
FreshExtraction(file, method) ==
  With(ExtractWith(method, file, <<>>), LAMBDA first :
    IF Insufficient(first.text)
    THEN ExtractWith(OtherMethod(method), file, first.processing_errors)
    ELSE first)

\* the fields are what a call with the arguments of this call leaves on a
\* new extractor, given the pair the call returned
FieldsOfThisCall ==
  With(FreshExtraction(pdf_file, extraction_method), LAMBDA fresh :
    /\ extracted_text = fresh.text
    /\ processing_errors =
         IF ReturnedError
         THEN Append(fresh.processing_errors, CriticalError(pipe_result.error))
         ELSE fresh.processing_errors
    /\ IF Insufficient(fresh.text) THEN EmptyOutput /\ ~ReturnedError
       ELSE
         With(smart_parse_judgment_structure(fresh.text), LAMBDA parsed :
           IF ReturnedError
           THEN /\ formatted_html = <<>>
                /\ \/ judgment_metadata = JudgmentMetadata
                      /\ confidence_score = FZero
                   \/ judgment_metadata = parsed.metadata
                      /\ confidence_score = parsed.confidence_score
           ELSE /\ judgment_metadata = parsed.metadata
                /\ confidence_score = parsed.confidence_score
                /\ \E now \in Clock :
                     formatted_html =
                       <<generate_enhanced_html(fresh.text, parsed.metadata,
                                                parsed.confidence_score,
                                                fresh.processing_errors,
                                                now)>>))

\* C13: after any sequence of calls of process_judgment_enhanced on one
\* extractor, extracted_text, formatted_html, judgment_metadata,
\* confidence_score and processing_errors are those the last call alone
\* produces, whatever the earlier calls returned and also when the last
\* call fails.
C13_OnlyLastCall == Returned => FieldsOfThisCall

\* a call that succeeded is followed by a call that failed on a file neither
\* library reads: the page and the metadata of the first are gone
C13_Witness ==
  /\ Returned
  /\ Len(earlier_results) = 1
  /\ earlier_results[1].success
  /\ pdf_file = File_Unreadable
  /\ pipe_result = InsufficientResult
  /\ EmptyOutput
  /\ Len(processing_errors) = 2

(***************************************************************************)
(* Properties of concurrent calls (under SpecConcurrent)                   *)
(***************************************************************************)
\* the pairs a call on file returns when it runs alone on the extractor,
\* which by C13 are those it returns before or after another call
SequentialResults(file, method) ==
  With(FreshExtraction(file, method), LAMBDA fresh :
    IF Insufficient(fresh.text) THEN {InsufficientResult}
    ELSE {SuccessResult(smart_parse_judgment_structure(fresh.text).confidence_score,
                        fresh.processing_errors)}
           \cup {ErrorResult(e) : e \in StepErrors})

\* the pairs of the two calls of InitConcurrent
SequentialFirst == SequentialResults(File_TwoPages, "pdfplumber")
SequentialSecond == SequentialResults(File_Unreadable, "pdfplumber")

\* C14 as stated: for any interleaving of two runs on the same extractor,
\* the pair each run returns, with the confidence and the number of
\* warnings in its message, is the pair it returns when the two documents
\* are processed one after the other.
C14_InterleavingInvisible ==
  /\ Returned => pipe_result \in SequentialFirst
  /\ other_run.pc = "returned" => other_run.result \in SequentialSecond

(***************************************************************************)
(* Properties of the fields (under SpecParse)                              *)
(***************************************************************************)
\* a case number of the form the claim gives: a prefix of the fixed set, an
\* optional qualifier in parentheses, 'No.' or '/', digits and an optional
\* '/' with a year of two to four digits
CaseNumberTokenRe ==
  Cat(<<AltLit(CasePrefixes), Spaces0,
        Opt(Cat(<<Lit(<<"(">>), Star(Cls({"I", "V", "X"})), Lit(<<")">>)>>)),
        Spaces0,
        Alt(<<Cat(<<Lit(<<"N", "o">>), Opt(Lit(<<".">>))>>), Lit(<<"/">>)>>),
        Spaces0, Plus(ReDigit), YearSuffix>>)

\* the case numbers of that form in the text of the call
CaseNumberTokens == FindAll(CaseNumberTokenRe, parse_text, NoFlags)

\* C15 as stated: a document whose text contains a case number of the form
\* <prefix> [(qualifier)] <'No.' or '/'> <digits>[/<year>] yields exactly
\* that string, prefix included, as case_number, and _clean_text leaves the
\* token as it is.
C15_CaseNumberTokenKept ==
  (parse_pc = "done" /\ Len(CaseNumberTokens) = 1) =>
    /\ parse_result.case_number = CaseNumberTokens[1]
    /\ Contains(cleaned_text, CaseNumberTokens[1])

\* the lines of the text of the call, and those that are not blank
TextLines == Split(parse_text, "\n")
NonEmptyTextLines == SelectSeq(TextLines, LAMBDA line : Strip(line) # <<>>)

\* C16 as stated: the case number is taken from the first 20 non-empty
\* lines and the date from the first 30 lines and from a line of at most 50
\* characters; a pattern that occurs only after the window, or a date
\* inside a longer line, leaves the field empty.
C16_HeaderWindow ==
  parse_pc = "done" =>
    /\ parse_result.case_number # <<>> =>
          \E k \in DOMAIN NonEmptyTextLines :
             k <= 20 /\ Contains(NonEmptyTextLines[k], parse_result.case_number)
    /\ parse_result.date_of_judgment # <<>> =>
          \E k \in DOMAIN TextLines :
             /\ k <= 30
             /\ Len(TextLines[k]) <= 50
             /\ Contains(TextLines[k], parse_result.date_of_judgment)

\* the line starts with 'Present', in any case, and a counsel pattern finds
\* a name in it
IsPresentLine(line) ==
  /\ StartsWith(StrUpper(line), <<"P", "R", "E", "S", "E", "N", "T">>)
  /\ \E n \in DOMAIN counsel_patterns :
        FindAllGroup(counsel_patterns[n], line, IgnoreCase) # <<>>

\* C17 as stated: when the document has a line that starts with 'Present'
\* and names counsel, the counsel field of the returned record is not empty
\* and is taken from the first such line.
C17_CounselFromPresentLine ==
  parse_pc = "done" =>
    \A k \in DOMAIN TextLines :
       (IsPresentLine(TextLines[k])
          /\ \A j \in 1..(k - 1) : ~IsPresentLine(TextLines[j])) =>
         /\ parse_result.counsel_petitioner # <<>>
         /\ Contains(TextLines[k], parse_result.counsel_petitioner)

\* a line with a separator token between two parts: the part before it is
\* group 1, the part after it group 2
PartsOfLineRe ==
  Cat(<<Grp(1, LazyRep(ReDot, 1, -1)), Spaces1, VsRe, Spaces1,
        Grp(2, Plus(ReDot))>>)
PartsOfLine(line) == MatchAt(PartsOfLineRe, line, 1, IgnoreCase)
\* the text has one parties line, line k
OnlyPartiesLine(k) ==
  /\ k \in DOMAIN TextLines
  /\ \A j \in DOMAIN TextLines : PartsOfLine(TextLines[j]) # NoMatch <=> j = k

\* C18 as stated: the petitioner and the respondent are the two parts of
\* the single parties line on either side of its separator token: the
\* petitioner holds no text of the lines before the parties line and the
\* respondent no text of the lines after it.
C18_PartiesOfOneLine ==
  parse_pc = "done" =>
    \A k \in DOMAIN TextLines :
       OnlyPartiesLine(k) =>
         \E m \in {PartsOfLine(TextLines[k])} :
            /\ parse_result.parties_petitioner
                 = Strip(Slice(TextLines[k], m[2][1][1], m[2][1][2]))
            /\ parse_result.parties_respondent
                 = Strip(Slice(TextLines[k], m[2][2][1], m[2][2][2]))

\* the parties of the returned record, written as one line
PartiesLine ==
  Join(<<parse_result.parties_petitioner, <<"V", "S">>,
         parse_result.parties_respondent>>, " ")

\* C19 as stated: for the ten-line sample judgment the returned record
\* holds case_number 'OMP (I) Comm. No. 800/20', parties that contain 'HDB
\* FINANCIAL SERVICES LTD VS THE DEOBAND PUBLIC SCHOOL' and the date
\* '13.02.2020'.
C19_SampleJudgment ==
  (parse_pc = "done" /\ parse_text = D_Sample) =>
    /\ parse_result.case_number = S_CaseNumber
    /\ Contains(PartiesLine, S_Parties)
    /\ parse_result.date_of_judgment = S_Date

(***************************************************************************)
(* The fallback protocol (under SpecPipeline)                              *)
(***************************************************************************)
\* the text has fewer than 100 characters after trimming
TooShort(text) == Len(Strip(text)) < MinTextLength

\* what the first and the second extraction method give for the file of
\* the call
FirstExtraction == ExtractWith(attempts[1], pdf_file, <<>>)
SecondExtraction ==
  ExtractWith(attempts[2], pdf_file, FirstExtraction.processing_errors)

\* C20: the selected extraction method runs first; the other method runs,
\* once, if and only if the first text has fewer than 100 characters after
\* trimming; the call returns the 'both methods' failure if and only if
\* both texts are insufficient; there are never more than two extraction
\* attempts, and parsing and the generation of the page start only after a
\* sufficient text was obtained.
C20_FallbackProtocol ==
  /\ Len(attempts) <= 2
  /\ attempts # <<>> => attempts[1] = extraction_method
  /\ Len(attempts) = 2 =>
        /\ attempts[2] \in ExtractionMethods \ {attempts[1]}
        /\ TooShort(FirstExtraction.text)
  /\ pipe_pc \in {"check_fallback", "html", "report", "returned"} =>
        (Len(attempts) = 2 <=> TooShort(FirstExtraction.text))
  /\ Returned =>
        (pipe_result = InsufficientResult
           <=> /\ Len(attempts) = 2
               /\ TooShort(FirstExtraction.text)
               /\ TooShort(SecondExtraction.text))
  /\ (\/ pipe_pc \in {"html", "report"}
      \/ Returned /\ pipe_result # InsufficientResult)
        => /\ ~TooShort(extracted_text)
           /\ extracted_text =
                IF Len(attempts) = 2 THEN SecondExtraction.text
                ELSE FirstExtraction.text

\* the selected method failed on a file PyPDF2 reads: the call has returned
\* success after the second extraction
C20_Witness ==
  /\ Returned
  /\ pdf_file = File_NoPdfPlumber
  /\ attempts = <<"pdfplumber", "pypdf2">>
  /\ pipe_result.success
  /\ TooShort(FirstExtraction.text)
  /\ ~TooShort(extracted_text)

(***************************************************************************)
(* The result and the fields at the return (under SpecPipeline)            *)
(***************************************************************************)
\* C21: when process_judgment_enhanced returns success, extracted_text has
\* at least 100 characters after trimming and formatted_html is not empty;
\* when it returns failure, formatted_html is the empty string, and when
\* the failure is that of insufficient text, judgment_metadata is the
\* all-default record and confidence_score is 0.0.
C21_ResultMatchesFields ==
  Returned =>
    /\ pipe_result.success =>
          /\ Len(Strip(extracted_text)) >= MinTextLength
          /\ formatted_html # <<>>
    /\ ~pipe_result.success => formatted_html = <<>>
    /\ pipe_result = InsufficientResult =>
          /\ judgment_metadata = JudgmentMetadata
          /\ confidence_score = FZero

\* a call has returned the failure of insufficient text for a file that
\* both libraries read some text of, less than MinTextLength characters
C21_Witness ==
  /\ Returned
  /\ pipe_result = InsufficientResult
  /\ Strip(extracted_text) # <<>>
  /\ formatted_html = <<>>
  /\ judgment_metadata = JudgmentMetadata

(***************************************************************************)
(* Properties of the extraction methods (under SpecExtract)                *)
(***************************************************************************)
\* the call of the extraction method has returned
ExReturned == ex_pc = "returned"

\* the page by page run returns what the extraction method, as the function
\* process_judgment_enhanced calls, returns
ExtractAsFunction ==
  ExReturned =>
    /\ ex_result.value = ExtractWith(ex_method, ex_file, <<>>).text
    /\ processing_errors =
         ExtractWith(ex_method, ex_file, <<>>).processing_errors

\* the extraction of the page raises: the call of PyPDF2 on it does, or
\* every call that pdfplumber is asked to make on it does
PageRaises(method, page) ==
  IF method = "pypdf2" THEN page.pypdf2.kind = "raise"
  ELSE /\ \A i \in DOMAIN page.strategies : page.strategies[i].kind = "raise"
       /\ page.words.kind = "raise"

\* the page yields text that is not blank
PageYieldsText(method, page) ==
  IF method = "pypdf2" THEN NonBlank(page.pypdf2)
  ELSE Strip(_extract_page_text_multiple_strategies(page)) # <<>>

\* "--- PAGE n ---"
PageMarker(n) ==
  <<"-", "-", "-", " ", "P", "A", "G", "E", " ">> \o Decimal(n)
    \o <<" ", "-", "-", "-">>

\* the numbers n of the markers in the text, in the order of the text
MarkedPages(extracted, pages) ==
  LET lines == Split(extracted, "\n")
      marks == SelectSeq(lines, LAMBDA line :
                           \E n \in DOMAIN pages : line = PageMarker(n))
  IN  [k \in DOMAIN marks |->
         CHOOSE n \in DOMAIN pages : marks[k] = PageMarker(n)]

\* the entries of processing_errors about page n
ErrorsOfPage(n) ==
  SelectSeq(processing_errors,
            LAMBDA entry : entry.source = "Page" /\ entry.page = n)

\* C22 as stated: in both extraction methods a page whose extraction raises
\* is recorded as one entry of processing_errors and skipped, the later pages
\* are still extracted, and the text returned has a marker "--- PAGE n ---"
\* for exactly the pages that yielded text that is not blank, n the 1-based
\* index of the page, the markers in increasing order of n.
C22_PageErrorsIsolated ==
  (ExReturned /\ Opened(ex_method, ex_file).kind # "raise") =>
    LET pages == ex_file.pages
        marked == MarkedPages(ex_result.value, pages)
    IN  /\ \A n \in DOMAIN pages :
              /\ Len(ErrorsOfPage(n)) =
                   IF PageRaises(ex_method, pages[n]) THEN 1 ELSE 0
              /\ (\E k \in DOMAIN marked : marked[k] = n)
                   <=> PageYieldsText(ex_method, pages[n])
        /\ \A k \in DOMAIN marked : k > 1 => marked[k - 1] < marked[k]

\* the call gave text that is not blank
GivesText(outcome) ==
  outcome.kind = "return" /\ Strip(outcome.value) # <<>>

\* the strategies, by their index in the list, that give text on the page
GivingStrategies(page) ==
  {i \in DOMAIN page.strategies : GivesText(page.strategies[i])}

\* C23: _extract_page_text_multiple_strategies tries its four strategies in
\* the order of the list and returns the text of the first that gives text
\* that is not blank, without calling a later one; a strategy that raises or
\* gives blank text is passed over; the reconstruction from the words runs
\* only after all four failed, and the function returns the empty string,
\* not an exception, when nothing gives text.
C23_StrategyOrder ==
  ex_pc \in {"strategies", "page_returned"} =>
    LET page == ThisPage
        giving == GivingStrategies(page)
        made == Len(page_calls)
    IN  /\ page_calls = SubSeq(PageCalls, 1, made)
        /\ \A k \in 1..made :
             (k <= StrategyCount /\ k \in giving)
               => (k = made /\ ex_pc = "page_returned")
        /\ made > StrategyCount => giving = {}
        /\ ex_pc = "page_returned" =>
             IF giving # {}
             THEN /\ made = MinOf(giving)
                  /\ page_text = page.strategies[made].value
             ELSE /\ made = StrategyCount + 1
                  /\ page_text =
                       IF page.words.kind = "return" /\ page.words.value # <<>>
                       THEN ReconstructedText(page.words.value)
                       ELSE <<>>

\* on a page whose first strategy raises and whose second gives blank text
\* the function has returned the text of the third, after three calls
C23_Witness ==
  /\ ex_pc = "page_returned"
  /\ ThisPage = Page_Layout
  /\ Len(page_calls) = 3
  /\ page_text = PageText_Body

\* the function has returned the text reconstructed from the words
WordsReconstructed ==
  /\ ex_pc = "page_returned"
  /\ GivingStrategies(ThisPage) = {}
  /\ ThisPage.words.kind = "return"
  /\ ThisPage.words.value # <<>>

\* the words of the line whose rounded top is y, from left to right
LineLeftToRight(words, y) ==
  LET on_line == SelectSeq(words, LAMBDA w : RoundTop(w.top) = y)
      by_x0 == SortedBy(on_line, [i \in DOMAIN on_line |-> on_line[i].x0])
  IN  JoinSpace([i \in DOMAIN by_x0 |-> by_x0[i].text])

\* the rounded tops of the lines of the page, the least first
TopsAscending(words) ==
  LET tops == {RoundTop(words[i].top) : i \in DOMAIN words}
  IN  [r \in 1..Cardinality(tops) |->
         CHOOSE y \in tops : Cardinality({z \in tops : z <= y}) = r]

\* C24 as stated: the text reconstructed from the words of a page has the
\* lines of the page from top to bottom (ascending distance top from the top
\* of the page) and the words of each line from left to right (ascending
\* x0).
C24_TopToBottom ==
  WordsReconstructed =>
    LET words == ThisPage.words.value
        tops == TopsAscending(words)
    IN  Split(page_text, "\n") =
          [r \in DOMAIN tops |-> LineLeftToRight(words, tops[r])]

(***************************************************************************)
(* Properties of _extract_with_confidence (under SpecParse)                *)
(***************************************************************************)
\* the candidates: the matches of the case-number patterns in the cleaned
\* text, pattern after pattern, each pattern's in the order of the text
CaseNumberCandidates ==
  Flatten([p \in DOMAIN case_number_patterns |->
             StripAll(FindAll(case_number_patterns[p], cleaned_text,
                              IgnoreCaseMultiline))])

\* the score of a candidate, in tenths: 4 in the first 10% of the text or 2
\* in the first 30%, 1 for each time the candidate was found but 3 at most,
\* 3 for a number/year of four digits and 2 for one of the five prefixes
TenthsScore(candidates, match) ==
  LET position == FindFrom(cleaned_text, match, 1) - 1
      frequency ==
        Cardinality({j \in DOMAIN candidates : candidates[j] = match})
  IN  (IF 10 * position < Len(cleaned_text) THEN 4
       ELSE IF 10 * position < 3 * Len(cleaned_text) THEN 2 ELSE 0)
      + (IF frequency < 3 THEN frequency ELSE 3)
      + (IF ReSearch(NumberYearRe, match, NoFlags) # NoMatch THEN 3 ELSE 0)
      + (IF ContainsAny(StrUpper(match), BonusPrefixes) THEN 2 ELSE 0)

\* the confidence the call has put into confidence_scores for key
ScoreOf(key) ==
  confidence_scores[CHOOSE k \in DOMAIN confidence_scores :
                      confidence_scores[k][1] = key][2]

\* C25 as stated: _extract_with_confidence returns ("", 0.0) if and only if
\* no pattern matches; otherwise it returns the candidate with the highest
\* score (0.4 in the first 10% of the text or 0.2 in the first 30%, 0.1 for
\* each occurrence up to 0.3, the format bonuses of case numbers), the
\* earliest candidate in the order of the patterns and then of the text when
\* scores tie, with a confidence of 1.0 at most.
C25_HighestScoreFirst ==
  parse_pc = "parties" =>
    LET candidates == CaseNumberCandidates
        tenths == [k \in DOMAIN candidates |->
                     TenthsScore(candidates, candidates[k])]
        best == MinOf({k \in DOMAIN tenths :
                         \A j \in DOMAIN tenths : tenths[j] <= tenths[k]})
    IN  IF candidates = <<>>
        THEN metadata.case_number = <<>> /\ ~Scored("case_number")
        ELSE /\ metadata.case_number = candidates[best]
             /\ metadata.case_number # <<>>
             /\ Scored("case_number")
             /\ ~FloatLess(Fl(10), ScoreOf("case_number"))

(***************************************************************************)
(* Properties of the overall confidence (under SpecParse)                  *)
(***************************************************************************)
\* the call has computed self.confidence_score
ConfidenceComputed == parse_pc \in {"type", "done"}

\* nothing was found: the court, by default, is the only entry
NothingFound ==
  /\ ~Scored("case_number") /\ ~Scored("parties") /\ ~Scored("dates")
  /\ ~Scored("judge")
  /\ NoCourtKeyword

\* C26: after smart_parse_judgment_structure confidence_score is the
\* arithmetic mean of the confidences of the fields that were found; it lies
\* in [0, 1] and is never 0, because the confidence of the court (0.9 where a
\* keyword matched, 0.3 by default) always is among them; for a text in
\* which nothing is found it is exactly 0.3.
C26_MeanConfidence ==
  ConfidenceComputed =>
    /\ Scored("court")
    /\ ScoreOf("court") = IF NoCourtKeyword THEN Fl(3) ELSE Fl(9)
    /\ \A j, k \in DOMAIN confidence_scores :
         confidence_scores[j][1] = confidence_scores[k][1] => j = k
    /\ confidence_score =
         FloatDiv(FloatSum(confidence_scores), Len(confidence_scores))
    /\ FloatLess(FZero, confidence_score)
    /\ ~FloatLess(Fl(10), confidence_score)
    /\ NothingFound => confidence_score = Fl(3)

\* the call has returned for a text with a court keyword and two or more
\* other fields: the mean of the confidences lies between 0.3 and 0.9
C26_Witness ==
  /\ parse_pc = "done"
  /\ Len(confidence_scores) >= 3
  /\ ScoreOf("court") = Fl(9)
  /\ FloatLess(Fl(3), confidence_score)
  /\ FloatLess(confidence_score, Fl(9))

(***************************************************************************)
(* Properties of the dates (under SpecParse)                               *)
(***************************************************************************)
\* the date strings found: the matches of the date patterns in the cleaned
\* text, pattern after pattern
DatesFound ==
  Flatten([p \in DOMAIN date_patterns |->
             FindAll(date_patterns[p], cleaned_text, IgnoreCase)])

\* the calendar date a date string is, by the formats of _parse_date, or
\* None: the string as it was found, or without its commas
CalendarDate(date_str) ==
  LET bare == StrReplace(date_str, <<",">>, <<>>)
      parsed == [n \in DOMAIN formats |->
                   IF Strptime(date_str, n) # None THEN Strptime(date_str, n)
                   ELSE Strptime(bare, n)]
      n == FirstTrue([k \in DOMAIN parsed |-> parsed[k] # None])
  IN  IF n = 0 THEN None ELSE parsed[n]

\* C27 as stated: of the date strings found in the document that parse to a
\* calendar date, date_of_judgment is the latest and date_of_filing the
\* earliest when two or more parsed, else empty; matches that do not parse
\* are left out, both fields are empty when none parses, and a date_of_filing
\* that is not empty is never later than date_of_judgment.
C27_LatestAndEarliest ==
  parse_pc = "judge" =>
    LET found == DatesFound
        dated == {k \in DOMAIN found : CalendarDate(found[k]) # None}
        day(k) == CalendarDate(found[k]).date
    IN  IF dated = {}
        THEN metadata.date_of_judgment = <<>>
             /\ metadata.date_of_filing = <<>>
        ELSE /\ \E k \in dated :
                  /\ metadata.date_of_judgment = found[k]
                  /\ \A j \in dated : day(j) <= day(k)
             /\ IF Cardinality(dated) >= 2
                THEN \E k \in dated :
                       /\ metadata.date_of_filing = found[k]
                       /\ \A j \in dated : day(k) <= day(j)
                ELSE metadata.date_of_filing = <<>>

(***************************************************************************)
(* Properties of the court (under SpecParse)                               *)
(***************************************************************************)
\* the court types in the order of their priority
CourtPriority == <<"district", "magistrate", "high", "supreme", "tribunal">>

\* a pattern of the court type occurs in the cleaned text
CourtTypeOccurs(type) ==
  \E t \in DOMAIN court_patterns :
     /\ court_patterns[t][1] = type
     /\ \E p \in DOMAIN court_patterns[t][2] :
          ReSearch(court_patterns[t][2][p], cleaned_text, IgnoreCase) # NoMatch

\* C28: the court type is the first of DISTRICT, MAGISTRATE, HIGH, SUPREME,
\* TRIBUNAL one of whose patterns occurs in the text (a text with both
\* 'District Judge' and 'High Court' is DISTRICT), with confidence 0.9; when
\* no pattern occurs it is DISTRICT with the name 'District Court' and
\* confidence 0.3; the court name is never empty.
C28_CourtPriority ==
  parse_pc = "counsel" =>
    LET occurring ==
          {n \in DOMAIN CourtPriority : CourtTypeOccurs(CourtPriority[n])}
    IN  /\ metadata.court_name # <<>>
        /\ IF occurring # {}
           THEN /\ metadata.court_type = CourtPriority[MinOf(occurring)]
                /\ ScoreOf("court") = Fl(9)
           ELSE /\ metadata.court_type = "district"
                /\ metadata.court_name = DefaultCourtName
                /\ ScoreOf("court") = Fl(3)

\* the court of a text with 'High Court' before 'District Judge' has been
\* identified as a district court
C28_Witness ==
  /\ parse_pc = "counsel"
  /\ parse_text = D_TwoCourts
  /\ CourtTypeOccurs("high") /\ CourtTypeOccurs("district")
  /\ metadata.court_type = "district"
  /\ ScoreOf("court") = Fl(9)

(***************************************************************************)
(* Properties of _clean_text (under SpecParse)                             *)
(***************************************************************************)
\* C29 as stated: the normalisation of the text is idempotent:
\* _clean_text(_clean_text(t)) equals _clean_text(t) for every text t, so
\* that normalising a normalised text changes nothing.
C29_CleanTextIdempotent ==
  parse_pc \notin {"idle", "start"} =>
    /\ cleaned_text = _clean_text(parse_text)
    /\ _clean_text(cleaned_text) = cleaned_text

====
